---- MODULE Spec2Model ----
(***************************************************************************)
(* A model of subnetCalc: the address arithmetic and the flat splitter of  *)
(* package subnet, the SubnetNode tree of package tui, and the interactive *)
(* Bubble Tea model (cursor, scrolling, status timer, undo/redo history).  *)
(*                                                                         *)
(* An address (netip.Addr) is the sequence of its bytes, most significant  *)
(* first: 4 bytes for IPv4, 16 for IPv6.  The zero Addr that netip returns *)
(* when Next/Prev run off the end of the address space is the empty        *)
(* sequence.  A prefix (netip.Prefix) is [addr, bits].                     *)
(***************************************************************************)
EXTENDS Integers, Sequences, FiniteSets, TLC

VARIABLES
    net,        \* SpecNet: the subnet.Network under test
    netop,      \* SpecNet: the last Network.Split call and its outcome
    nodes,      \* SpecTree: the SubnetNode heap, path from the root -> node
    treeop,     \* SpecTree: the last tree operation and the heap before it
    model,      \* the Bubble Tea Model held by the running program
    modelErr,   \* the error NewModel returned
    timers,     \* clearStatusMsg ticks scheduled and not yet delivered
    quitCmd,    \* a handler returned tea.Quit and its QuitMsg is not yet read
    quit,       \* the QuitMsg was read: the event loop has ended
    output,     \* what Run printed after the loop: the trees exported as JSON
    clipboard,  \* the tree of the last OSC 52 sequence written during the loop
    mutations,  \* number of undoable mutations performed so far
    calc        \* SpecCalc: the last call of a function of package subnet

vars == <<net, netop, nodes, treeop, model, modelErr, timers, quitCmd, quit,
          output, clipboard, mutations, calc>>

netVars == <<net, netop>>

calcVars == <<calc>>

treeVars == <<nodes, treeop>>

uiVars == <<model, modelErr, timers, quitCmd, quit, output, clipboard, mutations>>

-----------------------------------------------------------------------------
(* Small helpers *)

Max(a, b) == IF a >= b THEN a ELSE b

Min(a, b) == IF a <= b THEN a ELSE b

Pow2(n) == 2 ^ n

\* Bitwise AND / OR of two bytes, bit by bit.
RECURSIVE BitAndN(_, _, _)
BitAndN(a, b, n) ==
    IF n = 0 THEN 0
    ELSE (a % 2) * (b % 2) + 2 * BitAndN(a \div 2, b \div 2, n - 1)

RECURSIVE BitOrN(_, _, _)
BitOrN(a, b, n) ==
    IF n = 0 THEN 0
    ELSE Max(a % 2, b % 2) + 2 * BitOrN(a \div 2, b \div 2, n - 1)

ByteAnd(a, b) == BitAndN(a, b, 8)

ByteOr(a, b) == BitOrN(a, b, 8)

ByteNot(a) == 255 - a

IPv4 == <<0, 0, 0, 0>>

ZeroAddr == <<>>

BitLen(addr) == 8 * Len(addr)

-----------------------------------------------------------------------------
(* math/big, as far as the program uses it: a non-negative big.Int is the  *)
(* sequence of its base-256 digits, least significant first, without       *)
(* leading zeros (zero is the empty sequence); a negative one carries a    *)
(* sign.                                                                   *)

RECURSIVE BigTrim(_)
BigTrim(m) ==
    IF m = <<>> THEN m
    ELSE IF m[Len(m)] = 0 THEN BigTrim(SubSeq(m, 1, Len(m) - 1)) ELSE m

\* big.NewInt(v) for a small v >= 0, as a magnitude
RECURSIVE BigMag(_)
BigMag(v) == IF v = 0 THEN <<>> ELSE <<v % 256>> \o BigMag(v \div 256)

BigNewInt(v) == [neg |-> v < 0, mag |-> BigMag(IF v < 0 THEN -v ELSE v)]

\* new(big.Int).Exp(2, e, nil) and new(big.Int).Lsh(1, e)
BigPow2(e) ==
    [neg |-> FALSE,
     mag |-> [i \in 1..(e \div 8) |-> 0] \o <<Pow2(e % 8)>>]

\* comparison of magnitudes: -1, 0, 1
RECURSIVE MagCmpFrom(_, _, _)
MagCmpFrom(a, b, i) ==
    IF i = 0 THEN 0
    ELSE IF a[i] < b[i] THEN -1
    ELSE IF a[i] > b[i] THEN 1
    ELSE MagCmpFrom(a, b, i - 1)

MagCmp(a, b) ==
    IF Len(a) < Len(b) THEN -1
    ELSE IF Len(a) > Len(b) THEN 1
    ELSE MagCmpFrom(a, b, Len(a))

\* a - b for magnitudes with a >= b
RECURSIVE MagSubFrom(_, _, _, _)
MagSubFrom(a, b, i, borrow) ==
    IF i > Len(a) THEN <<>>
    ELSE LET bi == IF i <= Len(b) THEN b[i] ELSE 0
             d  == a[i] - bi - borrow
         IN  IF d < 0 THEN <<d + 256>> \o MagSubFrom(a, b, i + 1, 1)
             ELSE <<d>> \o MagSubFrom(a, b, i + 1, 0)

MagSub(a, b) == BigTrim(MagSubFrom(a, b, 1, 0))

\* (*big.Int).Sub for non-negative operands
BigSub(x, y) ==
    IF MagCmp(x.mag, y.mag) >= 0
    THEN [neg |-> FALSE, mag |-> MagSub(x.mag, y.mag)]
    ELSE [neg |-> TRUE, mag |-> MagSub(y.mag, x.mag)]

\* (*big.Int).Sign
BigSign(x) == IF x.mag = <<>> THEN 0 ELSE IF x.neg THEN -1 ELSE 1

\* number of bits of the magnitude (big.Int.BitLen)
RECURSIVE ByteBits(_)
ByteBits(b) == IF b = 0 THEN 0 ELSE 1 + ByteBits(b \div 2)

BigBitLen(x) ==
    IF x.mag = <<>> THEN 0
    ELSE 8 * (Len(x.mag) - 1) + ByteBits(x.mag[Len(x.mag)])

\* (*big.Int).IsInt64 for a non-negative value
BigIsInt64(x) == BigBitLen(x) <= 63

-----------------------------------------------------------------------------
(* net/netip, as far as the program uses it *)

\* the byte mask netip applies in Prefix.Masked for a prefix length
MaskByte(k) == (255 * Pow2(8 - k)) % 256

PrefixMaskBytes(bits, len) ==
    [i \in 1..len |->
        IF bits >= 8 * i THEN 255
        ELSE IF bits > 8 * (i - 1) THEN MaskByte(bits - 8 * (i - 1))
        ELSE 0]

\* Prefix.Masked().Addr(): the address with its host bits cleared
Masked(prefix) ==
    LET m == PrefixMaskBytes(prefix.bits, Len(prefix.addr))
    IN  [i \in 1..Len(prefix.addr) |-> ByteAnd(prefix.addr[i], m[i])]

\* Addr.Next(): the following address, the zero Addr past the last one
RECURSIVE IncFrom(_, _)
IncFrom(a, i) ==
    IF i = 0 THEN a
    ELSE IF a[i] = 255 THEN IncFrom([a EXCEPT ![i] = 0], i - 1)
    ELSE [a EXCEPT ![i] = a[i] + 1]

AddrNext(a) ==
    IF a = ZeroAddr \/ \A i \in 1..Len(a) : a[i] = 255 THEN ZeroAddr
    ELSE IncFrom(a, Len(a))

\* Addr.Prev(): the preceding address, the zero Addr before the first one
RECURSIVE DecFrom(_, _)
DecFrom(a, i) ==
    IF i = 0 THEN a
    ELSE IF a[i] = 0 THEN DecFrom([a EXCEPT ![i] = 255], i - 1)
    ELSE [a EXCEPT ![i] = a[i] - 1]

AddrPrev(a) ==
    IF a = ZeroAddr \/ \A i \in 1..Len(a) : a[i] = 0 THEN ZeroAddr
    ELSE DecFrom(a, Len(a))

\* Addr.Compare on two addresses of one family: -1, 0, 1
RECURSIVE AddrCmpFrom(_, _, _)
AddrCmpFrom(a, b, i) ==
    IF i > Len(a) THEN 0
    ELSE IF a[i] < b[i] THEN -1
    ELSE IF a[i] > b[i] THEN 1
    ELSE AddrCmpFrom(a, b, i + 1)

AddrLess(a, b) == AddrCmpFrom(a, b, 1) < 0

AddrLeq(a, b) == AddrCmpFrom(a, b, 1) <= 0

\* Text is a sequence of one-character strings.
DigitChars == {"0", "1", "2", "3", "4", "5", "6", "7", "8", "9"}

HexVal ==
    ("0" :> 0) @@ ("1" :> 1) @@ ("2" :> 2) @@ ("3" :> 3) @@ ("4" :> 4) @@
    ("5" :> 5) @@ ("6" :> 6) @@ ("7" :> 7) @@ ("8" :> 8) @@ ("9" :> 9) @@
    ("a" :> 10) @@ ("b" :> 11) @@ ("c" :> 12) @@ ("d" :> 13) @@
    ("e" :> 14) @@ ("f" :> 15) @@
    ("A" :> 10) @@ ("B" :> 11) @@ ("C" :> 12) @@ ("D" :> 13) @@
    ("E" :> 14) @@ ("F" :> 15)

HexChars == DOMAIN HexVal

\* s[from:] in Go terms, from counted from 1
Rest(s, from) == SubSeq(s, from, Len(s))

\* index of the first / last occurrence of c in s, 0 when there is none
RECURSIVE IndexFrom(_, _, _)
IndexFrom(s, c, i) ==
    IF i > Len(s) THEN 0 ELSE IF s[i] = c THEN i ELSE IndexFrom(s, c, i + 1)

IndexByte(s, c) == IndexFrom(s, c, 1)

RECURSIVE LastIndexFrom(_, _, _)
LastIndexFrom(s, c, i) ==
    IF i = 0 THEN 0 ELSE IF s[i] = c THEN i ELSE LastIndexFrom(s, c, i - 1)

LastIndexByte(s, c) == LastIndexFrom(s, c, Len(s))

AddrFail == [ok |-> FALSE, addr |-> ZeroAddr, zone |-> FALSE]

AddrOk(addr, zone) == [ok |-> TRUE, addr |-> addr, zone |-> zone]

\* netip.parseIPv4: fields holds the octets saved so far
RECURSIVE parseIPv4From(_, _, _, _, _)
parseIPv4From(s, i, val, digLen, fields) ==
    IF i > Len(s)
    THEN IF Len(fields) < 3 THEN AddrFail
         ELSE AddrOk(Append(fields, val), FALSE)
    ELSE IF s[i] \in DigitChars
    THEN IF digLen = 1 /\ val = 0 THEN AddrFail
         ELSE IF val * 10 + HexVal[s[i]] > 255 THEN AddrFail
         ELSE parseIPv4From(s, i + 1, val * 10 + HexVal[s[i]], digLen + 1, fields)
    ELSE IF s[i] = "."
    THEN IF i = 1 \/ i = Len(s) \/ s[i - 1] = "." THEN AddrFail
         ELSE IF Len(fields) = 3 THEN AddrFail
         ELSE parseIPv4From(s, i + 1, 0, 0, Append(fields, val))
    ELSE AddrFail

parseIPv4(s) == parseIPv4From(s, 1, 0, 0, <<>>)

\* the number of leading hex digits of s
RECURSIVE HexRun(_, _)
HexRun(s, off) ==
    IF off < Len(s) /\ s[off + 1] \in HexChars THEN HexRun(s, off + 1) ELSE off

RECURSIVE HexAcc(_, _, _)
HexAcc(s, off, acc) ==
    IF off = 0 THEN acc
    ELSE HexAcc(Rest(s, 2), off - 1, acc * 16 + HexVal[s[1]])

\* netip.parseIPv6, the loop over the groups: ip holds the bytes written so
\* far (i = Len(ip)), ellipsis is the byte index of "::" or -1.  The result
\* carries what is left of the text when the loop ends.
RECURSIVE parseIPv6Loop(_, _, _)
parseIPv6Loop(s, ip, ellipsis) ==
    LET i    == Len(ip)
        off  == HexRun(s, 0)
        acc  == HexAcc(s, off, 0)
        ip2  == ip \o <<acc \div 256, acc % 256>>
        s2   == Rest(s, off + 1)
        s3   == Rest(s2, 2)
        s4   == Rest(s3, 2)
        fail == [ok |-> FALSE, ip |-> ip, ellipsis |-> ellipsis, rest |-> s]
        done(b, e, r) == [ok |-> TRUE, ip |-> b, ellipsis |-> e, rest |-> r]
    IN  IF i >= 16 THEN done(ip, ellipsis, s)
        ELSE IF off > 4 THEN fail
        ELSE IF off = 0 THEN fail
        ELSE IF off < Len(s) /\ s[off + 1] = "."
        THEN IF ellipsis < 0 /\ i # 12 THEN fail
             ELSE IF i + 4 > 16 THEN fail
             ELSE IF ~parseIPv4(s).ok THEN fail
             ELSE done(ip \o parseIPv4(s).addr, ellipsis, <<>>)
        ELSE IF Len(s2) = 0 THEN done(ip2, ellipsis, s2)
        ELSE IF s2[1] # ":" THEN fail
        ELSE IF Len(s2) = 1 THEN fail
        ELSE IF s3[1] = ":"
        THEN IF ellipsis >= 0 THEN fail
             ELSE IF Len(s4) = 0 THEN done(ip2, Len(ip2), s4)
             ELSE parseIPv6Loop(s4, ip2, Len(ip2))
        ELSE parseIPv6Loop(s3, ip2, ellipsis)

\* netip.parseIPv6
parseIPv6(in) ==
    LET pct      == IndexByte(in, "%")
        s0       == IF pct # 0 THEN SubSeq(in, 1, pct - 1) ELSE in
        zone     == IF pct # 0 THEN Rest(in, pct + 1) ELSE <<>>
        leading  == Len(s0) >= 2 /\ s0[1] = ":" /\ s0[2] = ":"
        s1       == IF leading THEN Rest(s0, 3) ELSE s0
        r        == parseIPv6Loop(s1, <<>>, IF leading THEN 0 ELSE -1)
        i        == Len(r.ip)
        n        == 16 - i
        expanded == SubSeq(r.ip, 1, r.ellipsis) \o [j \in 1..n |-> 0]
                        \o SubSeq(r.ip, r.ellipsis + 1, i)
    IN  IF pct # 0 /\ zone = <<>> THEN AddrFail
        ELSE IF leading /\ Len(s1) = 0
             THEN AddrOk([j \in 1..16 |-> 0], zone # <<>>)
        ELSE IF ~r.ok THEN AddrFail
        ELSE IF Len(r.rest) # 0 THEN AddrFail
        ELSE IF i < 16
        THEN IF r.ellipsis < 0 THEN AddrFail
             ELSE AddrOk(expanded, zone # <<>>)
        ELSE IF r.ellipsis >= 0 THEN AddrFail
        ELSE AddrOk(r.ip, zone # <<>>)

\* netip.ParseAddr: the first '.', ':' or '%' decides the family
RECURSIVE ParseAddrFrom(_, _)
ParseAddrFrom(s, i) ==
    IF i > Len(s) THEN AddrFail
    ELSE IF s[i] = "." THEN parseIPv4(s)
    ELSE IF s[i] = ":" THEN parseIPv6(s)
    ELSE IF s[i] = "%" THEN AddrFail
    ELSE ParseAddrFrom(s, i + 1)

ParseAddr(s) == ParseAddrFrom(s, 1)

\* strconv.Atoi on the text after the slash, -1 when ParsePrefix rejects
\* it: empty, a sign or a leading zero before more characters, a character
\* that is no digit; four digits or more are beyond every prefix length
RECURSIVE AtoiFrom(_, _, _)
AtoiFrom(b, i, acc) ==
    IF i > Len(b) THEN acc ELSE AtoiFrom(b, i + 1, acc * 10 + HexVal[b[i]])

ParseBits(b) ==
    IF Len(b) = 0 THEN -1
    ELSE IF Len(b) > 1 /\ b[1] \notin (DigitChars \ {"0"}) THEN -1
    ELSE IF \E i \in 1..Len(b) : b[i] \notin DigitChars THEN -1
    ELSE IF Len(b) > 3 THEN -1
    ELSE AtoiFrom(b, 1, 0)

PrefixFail == [ok |-> FALSE, addr |-> ZeroAddr, bits |-> 0]

\* netip.ParsePrefix
ParsePrefix(s) ==
    LET slash == LastIndexByte(s, "/")
        ip    == ParseAddr(SubSeq(s, 1, slash - 1))
        bits  == ParseBits(Rest(s, slash + 1))
    IN  IF slash = 0 THEN PrefixFail
        ELSE IF ~ip.ok THEN PrefixFail
        ELSE IF Len(ip.addr) = 16 /\ ip.zone THEN PrefixFail
        ELSE IF bits < 0 \/ bits > BitLen(ip.addr) THEN PrefixFail
        ELSE [ok |-> TRUE, addr |-> ip.addr, bits |-> bits]

-----------------------------------------------------------------------------
(* package subnet: address arithmetic *)

MaxGeneratedSubnets == 1000000

\* CalculateSubnetMask: the loop over maskBytes with remainingBits
RECURSIVE MaskLoop(_, _, _)
MaskLoop(i, n, remainingBits) ==
    IF i > n THEN <<>>
    ELSE IF remainingBits >= 8
         THEN <<255>> \o MaskLoop(i + 1, n, remainingBits - 8)
    ELSE IF remainingBits > 0
         THEN <<(255 * Pow2(8 - remainingBits)) % 256>> \o MaskLoop(i + 1, n, 0)
    ELSE <<0>> \o MaskLoop(i + 1, n, remainingBits)

CalculateSubnetMask(maskBits, addrBits) == MaskLoop(1, addrBits \div 8, maskBits)

CalculateBroadcastAddr(networkAddr, subnetMask) ==
    [i \in 1..Len(networkAddr) |-> ByteOr(networkAddr[i], ByteNot(subnetMask[i]))]

CalculateMaxHosts64(addrBits, maskBits) ==
    LET hostBits == addrBits - maskBits
        maxHosts == BigSub(BigPow2(hostBits), BigNewInt(2))
    IN  IF hostBits <= 0 THEN BigNewInt(0)
        ELSE IF hostBits >= 63 THEN BigNewInt(0)
        ELSE IF BigSign(maxHosts) < 0 THEN BigNewInt(0)
        ELSE maxHosts

CalculateMaxHosts(addrBits, maskBits) ==
    LET hostBits == addrBits - maskBits
        maxHosts == BigSub(BigPow2(hostBits), BigNewInt(2))
    IN  IF hostBits <= 0 THEN BigNewInt(0)
        ELSE IF BigSign(maxHosts) < 0 THEN BigNewInt(0)
        ELSE maxHosts

\* AddToAddr: the carry loop from the last byte towards the first
RECURSIVE AddLoop(_, _, _)
AddLoop(bytes, i, carry) ==
    IF i >= 1 /\ carry > 0
    THEN LET sum == bytes[i] + carry
         IN  AddLoop([bytes EXCEPT ![i] = sum % 256], i - 1, sum \div 256)
    ELSE bytes

AddToAddrNoCarry(addr, n) ==
    [addr EXCEPT ![Len(addr)] = (addr[Len(addr)] + n) % 256]

AddToAddr(addr, n) == AddLoop(addr, Len(addr), n)

-----------------------------------------------------------------------------
(* package subnet: the Network entity and the flat splitter *)

Prefix(addr, bits) == [addr |-> addr, bits |-> bits]

NewNetworkFromPrefix(prefix0) ==
    LET prefix == Prefix(Masked(prefix0), prefix0.bits)
        mask   == CalculateSubnetMask(prefix.bits, BitLen(prefix.addr))
        bcast  == CalculateBroadcastAddr(prefix.addr, mask)
    IN  [CIDR          |-> prefix,
         NetworkAddr   |-> prefix.addr,
         BroadcastAddr |-> bcast,
         FirstHostIP   |-> AddrNext(prefix.addr),
         LastHostIP    |-> AddrPrev(bcast),
         SubnetMask    |-> mask,
         MaskBits      |-> prefix.bits,
         MaxHosts      |-> CalculateMaxHosts(BitLen(prefix.addr), prefix.bits),
         Subnets       |-> <<>>]

\* GenerateSubnets: the loop for i := 0; i < numSubnets; i++
RECURSIVE GenerateLoop(_, _, _, _)
GenerateLoop(i, numSubnets, currentAddr, targetBits) ==
    IF i < numSubnets
    THEN LET subnet == NewNetworkFromPrefix(Prefix(currentAddr, targetBits))
         IN  <<subnet>> \o GenerateLoop(i + 1, numSubnets,
                                        AddToAddr(subnet.BroadcastAddr, 1),
                                        targetBits)
    ELSE <<>>

\* GenerateSubnets with a loop that stops one subnet early
GenerateSubnetsOneShort(prefix, targetBits) ==
    LET diff       == targetBits - prefix.bits
        numSubnets == Pow2(diff)
    IN  GenerateLoop(0, numSubnets - 1, prefix.addr, targetBits)

GenerateSubnets(prefix, targetBits) ==
    LET diff       == targetBits - prefix.bits
        numSubnets == Pow2(diff)
    IN  GenerateLoop(0, numSubnets, prefix.addr, targetBits)

ErrNone == "nil"
ErrTargetNotLarger == "target prefix must be larger than network prefix"
ErrExceedsMaximum == "target prefix exceeds maximum for this address family"
ErrTooMany == "requested split would generate too many subnets"

\* (*Network).Split: the error it returns
NetworkSplitErrStrict(n, targetBits) ==
    LET maxBits    == BitLen(n.CIDR.addr)
        diff       == targetBits - n.MaskBits
        numSubnets == BigPow2(diff)
    IN  IF targetBits < n.MaskBits THEN ErrTargetNotLarger
        ELSE IF targetBits > maxBits THEN ErrExceedsMaximum
        ELSE IF ~BigIsInt64(numSubnets) THEN ErrTooMany
        ELSE IF MagCmp(numSubnets.mag, BigMag(MaxGeneratedSubnets)) > 0
             THEN ErrTooMany
        ELSE ErrNone

NetworkSplitErrWraps(n, targetBits) ==
    LET maxBits    == BitLen(n.CIDR.addr)
        diff       == targetBits - n.MaskBits
        numSubnets == BigPow2(diff)
    IN  IF targetBits <= n.MaskBits THEN ErrTargetNotLarger
        ELSE IF targetBits > maxBits THEN ErrExceedsMaximum
        ELSE IF diff < 63 /\ MagCmp(numSubnets.mag, BigMag(MaxGeneratedSubnets)) > 0
             THEN ErrTooMany
        ELSE ErrNone

NetworkSplitErr(n, targetBits) ==
    LET maxBits    == BitLen(n.CIDR.addr)
        diff       == targetBits - n.MaskBits
        numSubnets == BigPow2(diff)
    IN  IF targetBits <= n.MaskBits THEN ErrTargetNotLarger
        ELSE IF targetBits > maxBits THEN ErrExceedsMaximum
        ELSE IF ~BigIsInt64(numSubnets) THEN ErrTooMany
        ELSE IF MagCmp(numSubnets.mag, BigMag(MaxGeneratedSubnets)) > 0
             THEN ErrTooMany
        ELSE ErrNone

\* (*Network).Split: the receiver after the call
NetworkSplit(n, targetBits) ==
    IF NetworkSplitErr(n, targetBits) = ErrNone
    THEN [n EXCEPT !.Subnets = GenerateSubnets(n.CIDR, targetBits)]
    ELSE n

ErrInvalidNetworkCIDR == "invalid CIDR %q"

\* Network{}: zero addresses and prefix, no MaxHosts, no Subnets
ZeroNetwork ==
    [CIDR          |-> Prefix(ZeroAddr, 0),
     NetworkAddr   |-> ZeroAddr,
     BroadcastAddr |-> ZeroAddr,
     FirstHostIP   |-> ZeroAddr,
     LastHostIP    |-> ZeroAddr,
     SubnetMask    |-> ZeroAddr,
     MaskBits      |-> 0,
     MaxHosts      |-> <<>>,
     Subnets       |-> <<>>]

\* NewNetwork: the Network and the error it returns
NewNetwork(cidr) ==
    LET parsed == ParsePrefix(cidr)
    IN  IF ~parsed.ok
        THEN [net |-> ZeroNetwork, err |-> ErrInvalidNetworkCIDR]
        ELSE [net |-> NewNetworkFromPrefix(Prefix(parsed.addr, parsed.bits)),
              err |-> ErrNone]

-----------------------------------------------------------------------------
(* package tui: the SubnetNode tree.  A *SubnetNode is the path that leads *)
(* to it from the root (a sequence of child indices 0 and 1); the heap     *)
(* maps every node reachable from the root to its fields.  A pointer field *)
(* is a sequence: empty for nil, else holding the one path.                *)

MaxSplitDepth == 30

Root == <<>>

Nil == <<>>

Ptr(n) == <<n>>

createSubnetNode(prefix, parent) ==
    [Network  |-> NewNetworkFromPrefix(prefix),
     Parent   |-> parent,
     Children |-> <<>>,
     IsSplit  |-> FALSE]

\* (*SubnetNode).Split: its return value
SplitOk(h, n) ==
    ~(h[n].IsSplit \/ h[n].Network.CIDR.bits >= MaxSplitDepth)

\* (*SubnetNode).Split: the heap after the call
SplitNoNext(h, n) ==
    LET cidr        == h[n].Network.CIDR
        newBits     == cidr.bits + 1
        networkAddr == Masked(cidr)
        c0          == n \o <<0>>
        c1          == n \o <<1>>
        child1      == createSubnetNode(Prefix(networkAddr, newBits), Ptr(n))
        child2      == createSubnetNode(Prefix(child1.Network.BroadcastAddr, newBits), Ptr(n))
    IN  IF ~SplitOk(h, n) THEN h
        ELSE (c0 :> child1) @@ (c1 :> child2) @@
             [h EXCEPT ![n].Children = h[n].Children \o <<c0, c1>>,
                       ![n].IsSplit = TRUE]

SplitKeepsLeaf(h, n) ==
    LET cidr        == h[n].Network.CIDR
        newBits     == cidr.bits + 1
        networkAddr == Masked(cidr)
        c0          == n \o <<0>>
        c1          == n \o <<1>>
        child1      == createSubnetNode(Prefix(networkAddr, newBits), Ptr(n))
        child2Addr  == AddrNext(child1.Network.BroadcastAddr)
        child2      == createSubnetNode(Prefix(child2Addr, newBits), Ptr(n))
    IN  IF ~SplitOk(h, n) THEN h
        ELSE (c0 :> child1) @@ (c1 :> child2) @@
             [h EXCEPT ![n].Children = h[n].Children \o <<c0, c1>>]

SplitNoParent(h, n) ==
    LET cidr        == h[n].Network.CIDR
        newBits     == cidr.bits + 1
        networkAddr == Masked(cidr)
        c0          == n \o <<0>>
        c1          == n \o <<1>>
        child1      == createSubnetNode(Prefix(networkAddr, newBits), Ptr(n))
        child2Addr  == AddrNext(child1.Network.BroadcastAddr)
        child2      == createSubnetNode(Prefix(child2Addr, newBits), Nil)
    IN  IF ~SplitOk(h, n) THEN h
        ELSE (c0 :> child1) @@ (c1 :> child2) @@
             [h EXCEPT ![n].Children = h[n].Children \o <<c0, c1>>,
                       ![n].IsSplit = TRUE]

Split(h, n) ==
    LET cidr        == h[n].Network.CIDR
        newBits     == cidr.bits + 1
        networkAddr == Masked(cidr)
        c0          == n \o <<0>>
        c1          == n \o <<1>>
        child1      == createSubnetNode(Prefix(networkAddr, newBits), Ptr(n))
        child2Addr  == AddrNext(child1.Network.BroadcastAddr)
        child2      == createSubnetNode(Prefix(child2Addr, newBits), Ptr(n))
    IN  IF ~SplitOk(h, n) THEN h
        ELSE (c0 :> child1) @@ (c1 :> child2) @@
             [h EXCEPT ![n].Children = h[n].Children \o <<c0, c1>>,
                       ![n].IsSplit = TRUE]

\* (*SubnetNode).SplitToDepth
RECURSIVE SplitToDepth(_, _, _)
\* SplitToDepth without the recursion into the children
SplitToDepthOneLevel(h, n, targetBits) ==
    IF h[n].Network.CIDR.bits >= targetBits THEN h
    ELSE IF ~SplitOk(h, n) THEN h
    ELSE Split(h, n)

SplitToDepthFirstOnly(h, n, targetBits) ==
    IF h[n].Network.CIDR.bits >= targetBits THEN h
    ELSE IF ~SplitOk(h, n) THEN h
    ELSE LET h0 == Split(h, n)
         IN  SplitToDepth(h0, h0[n].Children[1], targetBits)

SplitToDepth(h, n, targetBits) ==
    IF h[n].Network.CIDR.bits >= targetBits THEN h
    ELSE IF ~SplitOk(h, n) THEN h
    ELSE LET h0 == Split(h, n)
             h1 == SplitToDepth(h0, h0[n].Children[1], targetBits)
         IN  SplitToDepth(h1, h1[n].Children[2], targetBits)

\* (*SubnetNode).Join: its return value
JoinOk(h, n) == h[n].IsSplit

\* n.Children = nil: the children are no longer reachable from the root
Unlink(h, n) ==
    LET kids == {h[n].Children[i] : i \in 1..Len(h[n].Children)}
    IN  [m \in DOMAIN h \ kids |->
            IF m = n THEN [h[m] EXCEPT !.Children = <<>>] ELSE h[m]]

\* (*SubnetNode).Join: the heap after the call
RECURSIVE JoinChildren(_, _, _)
RECURSIVE JoinKeepsFlag(_, _)
RECURSIVE JoinLeavesChildren(_, _)
RECURSIVE Join(_, _)
JoinChildren(h, n, i) ==
    IF i > Len(h[n].Children) THEN h
    ELSE JoinChildren(Join(h, h[n].Children[i]), n, i + 1)

JoinKeepsFlag(h, n) ==
    IF ~h[n].IsSplit THEN h
    ELSE Unlink(JoinChildren(h, n, 1), n)

JoinLeavesChildren(h, n) ==
    IF ~h[n].IsSplit THEN h
    ELSE [JoinChildren(h, n, 1) EXCEPT ![n].IsSplit = FALSE]

Join(h, n) ==
    IF ~h[n].IsSplit THEN h
    ELSE Unlink([JoinChildren(h, n, 1) EXCEPT ![n].IsSplit = FALSE], n)

\* getAncestorAtDepth: a pointer (Nil when there is none)
RECURSIVE getAncestorAtDepth(_, _, _)
\* getAncestorAtDepth without the walk up the parent links
getAncestorAtDepthNoWalk(h, node, targetBits) ==
    IF node = Nil THEN Nil
    ELSE IF h[node[1]].Network.CIDR.bits = targetBits THEN node
    ELSE Nil

getAncestorAtDepth(h, node, targetBits) ==
    IF node = Nil THEN Nil
    ELSE IF h[node[1]].Network.CIDR.bits = targetBits THEN node
    ELSE getAncestorAtDepth(h, h[node[1]].Parent, targetBits)

\* collectLeaves: the leaves appended, in order; a node that is not in the
\* heap is the nil node, for which nothing is appended
RECURSIVE collectLeaves(_, _)
RECURSIVE collectChildren(_, _, _)
collectChildren(h, n, i) ==
    IF i > Len(h[n].Children) THEN <<>>
    ELSE collectLeaves(h, h[n].Children[i]) \o collectChildren(h, n, i + 1)

collectLeaves(h, n) ==
    IF n \notin DOMAIN h THEN <<>>
    ELSE IF ~h[n].IsSplit THEN <<n>>
    ELSE collectChildren(h, n, 1)

NewTree(prefix) == (Root :> createSubnetNode(prefix, Nil))

-----------------------------------------------------------------------------
(* package tui: the interactive model.  A Model value is a record; its     *)
(* root field is the heap of the tree it points to.  cursor counts from 0  *)
(* as in the program, so the selected row is rows[cursor + 1].             *)

StatusExport == "Press 'q' to quit and see JSON output"
\* a rune outside ASCII is written U+ and its code point: U+2713 is the check
\* mark the message starts with
StatusCopied == "U+2713 Copied to clipboard!"
StatusUndone == "Undone"
StatusRedone == "Redone"
StatusNothingToUndo == "Nothing to undo"
StatusNothingToRedo == "Nothing to redo"

CmdNil == "nil"
CmdQuit == "tea.Quit"
CmdClearStatusAfter == "clearStatusAfter"

maxHistorySize == 50

\* netip.ParsePrefix succeeds: an IPv4 or IPv6 address and a length it allows
ParseOk(cidr) ==
    /\ Len(cidr.addr) \in {4, 16}
    /\ cidr.bits >= 0
    /\ cidr.bits <= BitLen(cidr.addr)

ErrInvalidCIDR == "invalid CIDR"
ErrTargetSize == "target subnet size must be larger than the network size"
ErrTargetMax == "target subnet size exceeds maximum allowed"

\* Model{}: the zero value.  undoStack and redoStack are the fields of the
\* history (see below); the handler of the source never touches them
ZeroModel ==
    [root |-> <<>>, rows |-> <<>>, cursor |-> 0, width |-> 0, height |-> 0,
     maxSplitDepth |-> 0, initialPrefix |-> 0, scrollOffset |-> 0,
     verticalScroll |-> 0, showAll |-> FALSE, statusMsg |-> "",
     undoStack |-> <<>>, redoStack |-> <<>>]

\* updateRows: flatten the tree and clamp the cursor
updateRowsNoClamp(mdl) ==
    [mdl EXCEPT !.rows = collectLeaves(mdl.root, Root)]

\* updateRows without the call of collectLeaves
updateRowsStale(mdl) ==
    [mdl EXCEPT !.cursor = Max(0, Min(mdl.cursor, Len(mdl.rows) - 1))]

updateRows(mdl) ==
    LET leaves == collectLeaves(mdl.root, Root)
    IN  [mdl EXCEPT !.rows = leaves,
                    !.cursor = Max(0, Min(mdl.cursor, Len(leaves) - 1))]

\* NewModel without the check of targetBits against MaxSplitDepth
NewModelErrNoMax(cidr, targetBits) ==
    IF ~ParseOk(cidr) THEN ErrInvalidCIDR
    ELSE IF targetBits > 0 /\ targetBits <= cidr.bits THEN ErrTargetSize
    ELSE ErrNone

\* NewModel: the error it returns
NewModelErr(cidr, targetBits) ==
    IF ~ParseOk(cidr) THEN ErrInvalidCIDR
    ELSE IF targetBits > 0 /\ targetBits <= cidr.bits THEN ErrTargetSize
    ELSE IF targetBits > 0 /\ targetBits > MaxSplitDepth THEN ErrTargetMax
    ELSE ErrNone

\* NewModel: the Model it returns
NewModel(cidr, targetBits) ==
    LET prefix == Prefix(Masked(cidr), cidr.bits)
        root   == NewTree(prefix)
    IN  IF NewModelErr(cidr, targetBits) # ErrNone THEN ZeroModel
        ELSE updateRows(
               [ZeroModel EXCEPT
                  !.root = IF targetBits > 0
                           THEN SplitToDepth(root, Root, targetBits)
                           ELSE root,
                  !.maxSplitDepth = MaxSplitDepth,
                  !.initialPrefix = prefix.bits])

\* hasSplits
hasSplits(mdl) == mdl.root[Root].IsSplit

\* getMaxBits: the loop over the rows
RECURSIVE MaxBitsLoop(_, _, _)
MaxBitsLoop(mdl, i, maxBits) ==
    IF i > Len(mdl.rows) THEN maxBits
    ELSE LET bits == mdl.root[mdl.rows[i]].Network.CIDR.bits
         IN  MaxBitsLoop(mdl, i + 1, IF bits > maxBits THEN bits ELSE maxBits)

getMaxBits(mdl) == MaxBitsLoop(mdl, 1, mdl.initialPrefix)

\* calculateVerticalScroll
\* calculateVerticalScroll without its final clamp
calculateVerticalScrollUnclamped(mdl, viewportHeight) ==
    IF mdl.cursor < mdl.verticalScroll THEN mdl.cursor
    ELSE IF mdl.cursor >= mdl.verticalScroll + viewportHeight
         THEN mdl.cursor - viewportHeight + 1
    ELSE mdl.verticalScroll

calculateVerticalScroll(mdl, viewportHeight) ==
    LET scroll == IF mdl.cursor < mdl.verticalScroll THEN mdl.cursor
                  ELSE IF mdl.cursor >= mdl.verticalScroll + viewportHeight
                       THEN mdl.cursor - viewportHeight + 1
                  ELSE mdl.verticalScroll
        maxVerticalScroll == Max(0, Len(mdl.rows) - viewportHeight)
    IN  Max(0, Min(scroll, maxVerticalScroll))

\* saveState: push the tree on the undo stack (oldest entry dropped beyond
\* maxHistorySize) and clear the redo stack
saveStateNoCap(mdl) ==
    [mdl EXCEPT !.undoStack = Append(mdl.undoStack, mdl.root),
                !.redoStack = <<>>]

saveStateKeepsRedo(mdl) ==
    LET pushed == Append(mdl.undoStack, mdl.root)
    IN  [mdl EXCEPT !.undoStack = IF Len(pushed) > maxHistorySize
                                  THEN Tail(pushed) ELSE pushed]

saveState(mdl) ==
    LET pushed == Append(mdl.undoStack, mdl.root)
    IN  [mdl EXCEPT !.undoStack = IF Len(pushed) > maxHistorySize
                                  THEN Tail(pushed) ELSE pushed,
                    !.redoStack = <<>>]

\* an undo that takes the oldest saved tree instead of the latest
undoOldest(mdl) ==
    updateRows([mdl EXCEPT !.root = mdl.undoStack[1],
                           !.undoStack = Tail(mdl.undoStack),
                           !.redoStack = Append(mdl.redoStack, mdl.root)])

\* undo: restore the tree on top of the undo stack, keeping the current one
\* for redo
undo(mdl) ==
    LET n == Len(mdl.undoStack)
    IN  updateRows([mdl EXCEPT !.root = mdl.undoStack[n],
                               !.undoStack = SubSeq(mdl.undoStack, 1, n - 1),
                               !.redoStack = Append(mdl.redoStack, mdl.root)])

\* redo: restore the tree on top of the redo stack, keeping the current one
\* for undo
redo(mdl) ==
    LET n == Len(mdl.redoStack)
    IN  updateRows([mdl EXCEPT !.root = mdl.redoStack[n],
                               !.redoStack = SubSeq(mdl.redoStack, 1, n - 1),
                               !.undoStack = Append(mdl.undoStack, mdl.root)])

\* what a handler gives back: the model, the command, and what it wrote to
\* standard output while it ran (the trees, each standing for its JSON)
Result(mdl, cmd) == [model |-> mdl, cmd |-> cmd, written |-> <<>>]

\* the keys of defaultKeys, keys.go
Keys == {"q", "ctrl+c", "up", "k", "down", "j", "pgup", "pgdown", "left", "h",
         "right", "l", "s", "x", "u", "r", "e", "c", "?"}

\* handleKeyPress, one operator per case of its switch
pressUp(mdl) ==
    Result(IF mdl.cursor > 0 THEN [mdl EXCEPT !.cursor = mdl.cursor - 1] ELSE mdl,
           CmdNil)

\* a down key that wraps from the last row to the first
pressDownWraps(mdl) ==
    Result([mdl EXCEPT !.cursor = (mdl.cursor + 1) % Len(mdl.rows)], CmdNil)

pressDown(mdl) ==
    Result(IF mdl.cursor < Len(mdl.rows) - 1
           THEN [mdl EXCEPT !.cursor = mdl.cursor + 1] ELSE mdl,
           CmdNil)

pressPageUp(mdl) ==
    LET viewportHeight == Max(3, mdl.height - 10)
    IN  Result([mdl EXCEPT
                  !.verticalScroll = Max(0, mdl.verticalScroll - viewportHeight),
                  !.cursor = Max(0, mdl.cursor - viewportHeight)],
               CmdNil)

\* a page-down that pages by 3 rows whatever the height
pressPageDownFixed(mdl) ==
    LET viewportHeight == 3
        maxScroll      == Max(0, Len(mdl.rows) - viewportHeight)
    IN  Result([mdl EXCEPT
                  !.verticalScroll = Min(mdl.verticalScroll + viewportHeight, maxScroll),
                  !.cursor = Min(mdl.cursor + viewportHeight, Len(mdl.rows) - 1)],
               CmdNil)

pressPageDown(mdl) ==
    LET viewportHeight == Max(3, mdl.height - 10)
        maxScroll      == Max(0, Len(mdl.rows) - viewportHeight)
    IN  Result([mdl EXCEPT
                  !.verticalScroll = Min(mdl.verticalScroll + viewportHeight, maxScroll),
                  !.cursor = Min(mdl.cursor + viewportHeight, Len(mdl.rows) - 1)],
               CmdNil)

pressLeft(mdl) ==
    Result(IF mdl.scrollOffset > 0
           THEN [mdl EXCEPT !.scrollOffset = mdl.scrollOffset - 1] ELSE mdl,
           CmdNil)

pressRight(mdl) ==
    LET maxBits == getMaxBits(mdl)
        numCols == maxBits - mdl.initialPrefix + 1
    IN  Result(IF mdl.scrollOffset < numCols - 1
               THEN [mdl EXCEPT !.scrollOffset = mdl.scrollOffset + 1] ELSE mdl,
               CmdNil)

\* a split key that leaves the rows as they were
pressSplitNoUpdate(mdl) ==
    IF Len(mdl.rows) > 0 /\ mdl.cursor < Len(mdl.rows)
    THEN LET node == mdl.rows[mdl.cursor + 1]
         IN  IF mdl.root[node].Network.CIDR.bits < mdl.maxSplitDepth
             THEN Result([mdl EXCEPT !.root = Split(mdl.root, node)], CmdNil)
             ELSE Result(mdl, CmdNil)
    ELSE Result(mdl, CmdNil)

pressSplit(mdl) ==
    IF Len(mdl.rows) > 0 /\ mdl.cursor < Len(mdl.rows)
    THEN LET node == mdl.rows[mdl.cursor + 1]
         IN  IF mdl.root[node].Network.CIDR.bits < mdl.maxSplitDepth
             THEN Result(updateRows([mdl EXCEPT !.root = Split(mdl.root, node)]),
                         CmdNil)
             ELSE Result(mdl, CmdNil)
    ELSE Result(mdl, CmdNil)

\* a join that moves the cursor to the row of the joined parent
pressJoinFollows(mdl) ==
    IF Len(mdl.rows) > 0 /\ mdl.cursor < Len(mdl.rows)
    THEN LET node == mdl.rows[mdl.cursor + 1]
         IN  IF mdl.root[node].Parent # Nil
             THEN LET parent == mdl.root[node].Parent[1]
                      joined == updateRows([mdl EXCEPT !.root = Join(mdl.root, parent)])
                  IN  Result([joined EXCEPT !.cursor =
                                 (CHOOSE i \in 1..Len(joined.rows) :
                                      joined.rows[i] = parent) - 1],
                             CmdNil)
             ELSE Result(mdl, CmdNil)
    ELSE Result(mdl, CmdNil)

\* a join that collapses the whole tree instead of the row's parent
pressJoinRoot(mdl) ==
    IF Len(mdl.rows) > 0 /\ mdl.cursor < Len(mdl.rows)
    THEN LET node == mdl.rows[mdl.cursor + 1]
         IN  IF mdl.root[node].Parent # Nil
             THEN Result(updateRows([mdl EXCEPT !.root = Join(mdl.root, Root)]),
                         CmdNil)
             ELSE Result(mdl, CmdNil)
    ELSE Result(mdl, CmdNil)

pressJoin(mdl) ==
    IF Len(mdl.rows) > 0 /\ mdl.cursor < Len(mdl.rows)
    THEN LET node == mdl.rows[mdl.cursor + 1]
         IN  IF mdl.root[node].Parent # Nil
             THEN LET parent == mdl.root[node].Parent[1]
                  IN  Result(updateRows([mdl EXCEPT !.root = Join(mdl.root, parent)]),
                             CmdNil)
             ELSE Result(mdl, CmdNil)
    ELSE Result(mdl, CmdNil)

\* an export key that schedules no status timer
pressExportNoTimer(mdl) ==
    Result([mdl EXCEPT !.statusMsg = StatusExport], CmdNil)

pressExport(mdl) ==
    Result([mdl EXCEPT !.statusMsg = StatusExport], CmdClearStatusAfter)

\* a copy key that collapses the tree it has copied
pressCopyCollapses(mdl) ==
    [Result(updateRows([mdl EXCEPT !.statusMsg = StatusCopied,
                                   !.root = Join(mdl.root, Root)]),
            CmdClearStatusAfter) EXCEPT !.written = <<mdl.root>>]

\* the copy key: the JSON of the tree goes to standard output in an OSC 52
\* sequence (base64 between "ESC ] 52 ; c ;" and BEL), then the status is set
pressCopy(mdl) ==
    [Result([mdl EXCEPT !.statusMsg = StatusCopied], CmdClearStatusAfter)
        EXCEPT !.written = <<mdl.root>>]

pressHelp(mdl) == Result([mdl EXCEPT !.showAll = ~mdl.showAll], CmdNil)

\* handleKeyPress: the first case whose binding matches the key; a key of no
\* case (u and r among them) leaves the model as it is
handleKeyPress(mdl, key) ==
    CASE key \in {"q", "ctrl+c"} -> Result(mdl, CmdQuit)
      [] key \in {"up", "k"}     -> pressUp(mdl)
      [] key \in {"down", "j"}   -> pressDown(mdl)
      [] key = "pgup"            -> pressPageUp(mdl)
      [] key = "pgdown"          -> pressPageDown(mdl)
      [] key \in {"left", "h"}   -> pressLeft(mdl)
      [] key \in {"right", "l"}  -> pressRight(mdl)
      [] key = "s"               -> pressSplit(mdl)
      [] key = "x"               -> pressJoin(mdl)
      [] key = "e"               -> pressExport(mdl)
      [] key = "c"               -> pressCopy(mdl)
      [] key = "?"               -> pressHelp(mdl)
      [] OTHER                   -> Result(mdl, CmdNil)

-----------------------------------------------------------------------------
(* The undo/redo history.  The Model and the handler of src/tui/model.go    *)
(* keep no history; the key bindings u and r and the tests of the history   *)
(* are in the repository, the code they were written for is not.  The       *)
(* history follows the specification: a split or a join that happens saves *)
(* the tree first, u and r walk the saved trees.                            *)

\* a split key that saves the tree for undo before it looks at the depth
pressSplitSavesFirst(mdl) ==
    IF Len(mdl.rows) > 0 /\ mdl.cursor < Len(mdl.rows)
    THEN pressSplit(saveState(mdl))
    ELSE Result(mdl, CmdNil)

\* whether the split case of the handler changes the tree: a row under the
\* cursor, above the depth limit, that Split accepts
splitHappens(mdl) ==
    /\ Len(mdl.rows) > 0
    /\ mdl.cursor < Len(mdl.rows)
    /\ mdl.root[mdl.rows[mdl.cursor + 1]].Network.CIDR.bits < mdl.maxSplitDepth
    /\ SplitOk(mdl.root, mdl.rows[mdl.cursor + 1])

\* whether the join case of the handler changes the tree: a row under the
\* cursor that has a parent
joinHappens(mdl) ==
    /\ Len(mdl.rows) > 0
    /\ mdl.cursor < Len(mdl.rows)
    /\ mdl.root[mdl.rows[mdl.cursor + 1]].Parent # Nil

\* the split case with the history: saveState before a split that happens
pressSplitSaved(mdl) ==
    IF splitHappens(mdl)
    THEN pressSplit(saveState(mdl))
    ELSE pressSplit(mdl)

\* the join case with the history: saveState before a join that happens
pressJoinSaved(mdl) ==
    IF joinHappens(mdl)
    THEN pressJoin(saveState(mdl))
    ELSE pressJoin(mdl)

pressUndo(mdl) ==
    IF Len(mdl.undoStack) = 0
    THEN Result([mdl EXCEPT !.statusMsg = StatusNothingToUndo], CmdClearStatusAfter)
    ELSE Result([undo(mdl) EXCEPT !.statusMsg = StatusUndone], CmdClearStatusAfter)

pressRedo(mdl) ==
    IF Len(mdl.redoStack) = 0
    THEN Result([mdl EXCEPT !.statusMsg = StatusNothingToRedo], CmdClearStatusAfter)
    ELSE Result([redo(mdl) EXCEPT !.statusMsg = StatusRedone], CmdClearStatusAfter)

\* the handler without the cases of the history
handleKeyPressNoHistory(mdl, key) == handleKeyPress(mdl, key)

\* the handler with the cases of the history before the cases of the source
handleKeyPressHistory(mdl, key) ==
    CASE key = "s" -> pressSplitSaved(mdl)
      [] key = "x" -> pressJoinSaved(mdl)
      [] key = "u" -> pressUndo(mdl)
      [] key = "r" -> pressRedo(mdl)
      [] OTHER     -> handleKeyPress(mdl, key)

\* Update, one operator per message type
updateClearStatus(mdl) == Result([mdl EXCEPT !.statusMsg = ""], CmdNil)

updateWindowSize(mdl, w, h) ==
    Result([mdl EXCEPT !.width = w, !.height = h], CmdNil)

\* Run, after p.Run() has returned the final model: the tree it prints as
\* JSON, if any
runOutput(finalModel) ==
    IF finalModel.statusMsg = StatusExport THEN <<finalModel.root>> ELSE <<>>

-----------------------------------------------------------------------------
(* The values the variables of the other specifications keep *)

NoNetOp == [called |-> FALSE, targetBits |-> 0, err |-> ErrNone, before |-> <<>>]

NetIdle ==
    /\ net = NewNetworkFromPrefix(Prefix(IPv4, 0))
    /\ netop = NoNetOp

NoCalc == [op |-> "none", args |-> <<>>, out |-> <<>>, err |-> ErrNone]

CalcIdle == calc = NoCalc

NoTreeOp(h) ==
    [op |-> "none", node |-> Root, targetBits |-> 0, ret |-> FALSE,
     before |-> h, splitBefore |-> <<>>]

IdleTree == NewTree(Prefix(IPv4, 0))

TreeIdle ==
    /\ nodes = IdleTree
    /\ treeop = NoTreeOp(IdleTree)

UiIdle ==
    /\ model = ZeroModel
    /\ modelErr = ErrNone
    /\ timers = 0
    /\ quitCmd = FALSE
    /\ quit = FALSE
    /\ output = <<>>
    /\ clipboard = <<>>
    /\ mutations = 0

-----------------------------------------------------------------------------
(* SpecTree: Split, SplitToDepth and Join called on any node of a tree *)

\* Split is called on nodes less than MaxTreeDepth levels below the root
MaxTreeDepth == 2

TreeInputs ==
    { Prefix(<<192, 168, 1, 77>>, 24),
      Prefix(<<0, 0, 0, 0>>, 0),
      Prefix(<<255, 255, 255, 255>>, 28),
      Prefix(<<10, 0, 0, 8>>, 29),
      Prefix(<<192, 168, 1, 0>>, 30),
      Prefix(<<32, 1, 13, 184, 0, 0, 0, 0, 0, 0, 0, 0, 0, 0, 0, 1>>, 27),
      Prefix(<<32, 1, 13, 184, 0, 0, 0, 0, 0, 0, 0, 0, 0, 0, 0, 0>>, 64) }

\* targets of SplitToDepth: from one below the root's prefix length (a call
\* that does nothing) to MaxTreeDepth levels below the root
DepthInputs(h) ==
    {t \in 0..32 : /\ t >= h[Root].Network.CIDR.bits - 1
                   /\ t <= h[Root].Network.CIDR.bits + MaxTreeDepth}

\* the record of a call; splitBefore holds the heap before the preceding
\* call when that was a successful Split of the node now joined
TreeOp(op, n, targetBits, ret) ==
    [op |-> op, node |-> n, targetBits |-> targetBits, ret |-> ret,
     before |-> nodes,
     splitBefore |-> IF op = "Join" /\ treeop.op = "Split" /\ treeop.ret
                        /\ treeop.node = n
                     THEN <<treeop.before>> ELSE <<>>]

InitTree ==
    /\ nodes \in {NewTree(p) : p \in TreeInputs}
    /\ treeop = NoTreeOp(nodes)
    /\ NetIdle
    /\ UiIdle
    /\ CalcIdle

CallSplit(n) ==
    /\ Len(n) < MaxTreeDepth \/ ~SplitOk(nodes, n)
    /\ nodes' = Split(nodes, n)
    /\ treeop' = TreeOp("Split", n, 0, SplitOk(nodes, n))
    /\ UNCHANGED <<netVars, uiVars, calcVars>>

CallSplitToDepth(n, targetBits) ==
    /\ nodes' = SplitToDepth(nodes, n, targetBits)
    /\ treeop' = TreeOp("SplitToDepth", n, targetBits, TRUE)
    /\ UNCHANGED <<netVars, uiVars, calcVars>>

CallJoin(n) ==
    /\ nodes' = Join(nodes, n)
    /\ treeop' = TreeOp("Join", n, 0, JoinOk(nodes, n))
    /\ UNCHANGED <<netVars, uiVars, calcVars>>

NextTree ==
    \E n \in DOMAIN nodes :
        \/ CallSplit(n)
        \/ CallJoin(n)
        \/ \E targetBits \in DepthInputs(nodes) : CallSplitToDepth(n, targetBits)

SpecTree == InitTree /\ [][NextTree]_vars

-----------------------------------------------------------------------------
(* SpecNet: Network.Split called repeatedly on one Network *)

\* the largest targetBits - MaskBits for which the subnets are generated
MaxDiff == 3

\* CIDR inputs, host bits not cleared where the input has some
NetInputs ==
    { Prefix(<<192, 168, 1, 0>>, 24),
      Prefix(<<10, 12, 34, 56>>, 19),
      Prefix(<<255, 255, 255, 250>>, 29),
      Prefix(<<0, 0, 0, 0>>, 0),
      Prefix(<<10, 0, 0, 1>>, 32),
      Prefix(<<32, 1, 13, 184, 0, 0, 0, 0, 0, 0, 0, 0, 0, 0, 1, 255>>, 119),
      Prefix(<<255, 255, 255, 255, 255, 255, 255, 255,
               255, 255, 255, 255, 255, 255, 255, 255>>, 126),
      Prefix(<<254, 128, 0, 0, 0, 0, 0, 0, 0, 0, 0, 0, 0, 0, 0, 0>>, 10),
      Prefix(<<0, 0, 0, 0, 0, 0, 0, 0, 0, 0, 0, 0, 0, 0, 0, 0>>, 0) }

TargetInputs == 0..130

\* a call is modelled when it fails or generates at most 2^MaxDiff subnets
Modelled(n, targetBits) ==
    NetworkSplitErr(n, targetBits) # ErrNone \/ targetBits - n.MaskBits <= MaxDiff

InitNet ==
    /\ net \in {NewNetworkFromPrefix(p) : p \in NetInputs}
    /\ netop = NoNetOp
    /\ TreeIdle
    /\ UiIdle
    /\ CalcIdle

CallNetworkSplit(targetBits) ==
    /\ Modelled(net, targetBits)
    /\ net' = NetworkSplit(net, targetBits)
    /\ netop' = [called |-> TRUE, targetBits |-> targetBits,
                 err |-> NetworkSplitErr(net, targetBits),
                 before |-> net.Subnets]
    /\ UNCHANGED <<treeVars, uiVars, calcVars>>

NextNet == \E targetBits \in TargetInputs : CallNetworkSplit(targetBits)

SpecNet == InitNet /\ [][NextNet]_vars

-----------------------------------------------------------------------------
(* Spec: the program run by tui.Run: NewModel, then the Bubble Tea event   *)
(* loop delivering key presses, window sizes and status-clear ticks one at *)
(* a time until a handler returns tea.Quit; Run then prints the JSON or     *)
(* not and returns, and the model is gone.                                 *)

\* successful split and join key presses in one run
MaxMutations == 2

\* clearStatusMsg ticks pending at one time
MaxTimers == 1

ModelInputs ==
    { <<Prefix(<<10, 0, 0, 9>>, 28), 0>>,
      <<Prefix(<<10, 0, 0, 9>>, 28), 30>>,
      <<Prefix(<<192, 168, 0, 0>>, 24), 24>>,
      <<Prefix(<<192, 168, 0, 0>>, 24), 31>>,
      <<Prefix(<<192, 168, 0, 0>>, 33), 0>> }

WindowSizes == { <<80, 24>>, <<40, 12>> }

\* whether a structural key press does what it is for
Effective(mdl, key) ==
    CASE key = "s" -> splitHappens(mdl)
      [] key = "x" -> joinHappens(mdl)
      [] key = "u" -> Len(mdl.undoStack) > 0
      [] key = "r" -> Len(mdl.redoStack) > 0
      [] OTHER -> FALSE

InitWith(inputs) ==
    /\ \E in \in inputs :
        /\ model = NewModel(in[1], in[2])
        /\ modelErr = NewModelErr(in[1], in[2])
    /\ timers = 0
    /\ quitCmd = FALSE
    /\ quit = FALSE
    /\ output = <<>>
    /\ clipboard = <<>>
    /\ mutations = 0
    /\ NetIdle
    /\ TreeIdle
    /\ CalcIdle

Running == ~quit /\ modelErr = ErrNone

\* the event loop after Update(tea.KeyMsg) has returned r: the model is
\* replaced, the command is started (tea.Tick for clearStatusAfter, and for
\* tea.Quit a QuitMsg the loop reads later, see QuitMsg), and what the
\* handler wrote is on standard output
Deliver(r, mutated, mutLimit, timerLimit) ==
    /\ Running
    /\ mutated => mutations < mutLimit
    /\ r.cmd = CmdClearStatusAfter => timers < timerLimit
    /\ model' = r.model
    /\ timers' = IF r.cmd = CmdClearStatusAfter THEN timers + 1 ELSE timers
    /\ quitCmd' = (quitCmd \/ r.cmd = CmdQuit)
    /\ clipboard' = IF r.written # <<>> THEN r.written ELSE clipboard
    /\ mutations' = IF mutated THEN mutations + 1 ELSE mutations
    /\ UNCHANGED <<modelErr, quit, output, netVars, treeVars, calcVars>>

\* Update(tea.KeyMsg) in the event loop, with the handler of the source
Press(key, mutLimit) ==
    Deliver(handleKeyPress(model, key),
            key \in {"s", "x"} /\ Effective(model, key), mutLimit, MaxTimers)

\* Update(tea.KeyMsg) in the event loop, with the handler that has the history
PressHistory(key, mutLimit) ==
    Deliver(handleKeyPressHistory(model, key),
            key \in {"s", "x"} /\ Effective(model, key), mutLimit, MaxTimers)

\* the event loop reads the QuitMsg of tea.Quit: p.Run returns the model as
\* it is by then, Run prints the JSON or not and returns, the model is gone
QuitMsg ==
    /\ Running
    /\ quitCmd
    /\ quit' = TRUE
    /\ quitCmd' = FALSE
    /\ output' = runOutput(model)
    /\ model' = ZeroModel
    /\ timers' = 0
    /\ UNCHANGED <<modelErr, clipboard, mutations, netVars, treeVars, calcVars>>

\* Update(tea.WindowSizeMsg) in the event loop
Resize(w, h) ==
    /\ Running
    /\ model' = updateWindowSize(model, w, h).model
    /\ UNCHANGED <<modelErr, timers, quitCmd, quit, output, clipboard, mutations,
                   netVars, treeVars, calcVars>>

\* Update(clearStatusMsg) in the event loop: a tick of clearStatusAfter fires
Tick ==
    /\ Running
    /\ timers > 0
    /\ model' = updateClearStatus(model).model
    /\ timers' = timers - 1
    /\ UNCHANGED <<modelErr, quitCmd, quit, output, clipboard, mutations,
                   netVars, treeVars, calcVars>>

KeyQuit == Press("q", MaxMutations)
KeyUp == Press("up", MaxMutations)
KeyDown == Press("down", MaxMutations)
KeyPageUp == Press("pgup", MaxMutations)
KeyPageDown == Press("pgdown", MaxMutations)
KeyLeft == Press("left", MaxMutations)
KeyRight == Press("right", MaxMutations)
KeySplit == Press("s", MaxMutations)
KeyJoin == Press("x", MaxMutations)
\* u and r are bound (keys.go) and match no case of handleKeyPress: the
\* model comes back as it is
KeyUndo == Press("u", MaxMutations)
KeyRedo == Press("r", MaxMutations)
KeyExport == Press("e", MaxMutations)
KeyCopy == Press("c", MaxMutations)
KeyHelp == Press("?", MaxMutations)
WindowSize == \E sz \in WindowSizes : Resize(sz[1], sz[2])

Init == InitWith(ModelInputs)

Next ==
    \/ KeyQuit
    \/ KeyUp
    \/ KeyDown
    \/ KeyPageUp
    \/ KeyPageDown
    \/ KeyLeft
    \/ KeyRight
    \/ KeySplit
    \/ KeyJoin
    \/ KeyUndo
    \/ KeyRedo
    \/ KeyExport
    \/ KeyCopy
    \/ KeyHelp
    \/ WindowSize
    \/ Tick
    \/ QuitMsg

Spec == Init /\ [][Next]_vars

-----------------------------------------------------------------------------
(* SpecHistory: the event loop with the handler that has the undo/redo     *)
(* history of the specification: split and join save the tree, u and r     *)
(* walk the saved trees.  The cursor keys, the status ticks and the inputs *)
(* of Spec are kept, so that every row of every tree is selected with      *)
(* empty and with non-empty stacks.                                        *)

HistorySplit == PressHistory("s", MaxMutations)
HistoryJoin == PressHistory("x", MaxMutations)
HistoryUndo == PressHistory("u", MaxMutations)
HistoryRedo == PressHistory("r", MaxMutations)

InitHistory == InitWith(ModelInputs)

NextHistory ==
    \/ KeyUp
    \/ KeyDown
    \/ HistorySplit
    \/ HistoryJoin
    \/ HistoryUndo
    \/ HistoryRedo
    \/ Tick

SpecHistory == InitHistory /\ [][NextHistory]_vars

-----------------------------------------------------------------------------
(* SpecCap: a long run of split and join key presses, so that the history *)
(* outgrows maxHistorySize: split while the row under the cursor can be    *)
(* split, else join.  On a /29 this alternates split and join; on a /28    *)
(* the table goes through 1, 2, 3, 2, 3, ... rows.  While the history is   *)
(* short, undo and redo key presses walk back and forth in it; the run     *)
(* goes on once everything is redone and the status timer was delivered.   *)

\* undoable mutations in one run
CapMutations == 110

\* undo and redo are pressed while at most this many mutations were made
CapHistory == 2

CapInputs ==
    { <<Prefix(<<192, 168, 0, 0>>, 29), 0>>,
      <<Prefix(<<192, 168, 0, 0>>, 28), 0>> }

InitCap == InitWith(CapInputs)

\* the next mutating key of the run
CapKey(mdl) == IF Effective(mdl, "s") THEN "s" ELSE "x"

CapSplit ==
    /\ model.redoStack = <<>>
    /\ timers = 0
    /\ CapKey(model) = "s"
    /\ PressHistory("s", CapMutations)

CapJoin ==
    /\ model.redoStack = <<>>
    /\ timers = 0
    /\ CapKey(model) = "x"
    /\ PressHistory("x", CapMutations)

CapUndo == mutations <= CapHistory /\ PressHistory("u", CapMutations)

CapRedo == mutations <= CapHistory /\ PressHistory("r", CapMutations)

NextCap ==
    \/ CapSplit
    \/ CapJoin
    \/ CapUndo
    \/ CapRedo
    \/ Tick

SpecCap == InitCap /\ [][NextCap]_vars

-----------------------------------------------------------------------------
(* SpecJoin: the join tests' models, a /24 pre-split to /26 and to /25,    *)
(* under cursor moves and join, undo and redo key presses.                 *)

\* undoable mutations in one run
JoinMutations == 2

JoinInputs ==
    { <<Prefix(<<192, 168, 0, 0>>, 24), 26>>,
      <<Prefix(<<192, 168, 0, 0>>, 24), 25>> }

InitJoin == InitWith(JoinInputs)

JoinUp == Press("up", JoinMutations)
JoinDown == Press("down", JoinMutations)
JoinKey == PressHistory("x", JoinMutations)
JoinUndo == PressHistory("u", JoinMutations)
JoinRedo == PressHistory("r", JoinMutations)

NextJoin ==
    \/ JoinUp
    \/ JoinDown
    \/ JoinKey
    \/ JoinUndo
    \/ JoinRedo
    \/ Tick

SpecJoin == InitJoin /\ [][NextJoin]_vars

-----------------------------------------------------------------------------
(* SpecStatus: the keys that set a status message (export, copy), split,   *)
(* cursor and quit, and the delivery of the status timers.  tea.Tick       *)
(* delivers its message after three seconds while the program runs, hence  *)
(* the weak fairness of Tick.                                              *)

\* successful split key presses in one run
StatusMutations == 2

StatusInputs ==
    { <<Prefix(<<192, 168, 0, 0>>, 24), 0>>,
      <<Prefix(<<192, 168, 0, 0>>, 24), 25>> }

InitStatus == InitWith(StatusInputs)

StatusQuit == Press("q", StatusMutations)
StatusDown == Press("down", StatusMutations)
StatusSplit == Press("s", StatusMutations)
StatusExportKey == Press("e", StatusMutations)
StatusCopy == Press("c", StatusMutations)

NextStatus ==
    \/ StatusQuit
    \/ StatusDown
    \/ StatusSplit
    \/ StatusExportKey
    \/ StatusCopy
    \/ Tick
    \/ QuitMsg

SpecStatus == InitStatus /\ [][NextStatus]_vars /\ WF_vars(Tick)

-----------------------------------------------------------------------------
(* SpecTimer: status messages set while the clearStatusMsg of an earlier    *)
(* one is still pending.  Every tea.Tick of clearStatusAfter has the same    *)
(* delay, so the pending ticks fire in the order they were scheduled: with   *)
(* timers pending, Tick delivers the oldest, and the tick scheduled with the *)
(* message on display is the newest.                                         *)

\* clearStatusMsg ticks pending at one time
PendingTimers == 2

\* successful split key presses in one run
TimerMutations == 2

TimerInputs ==
    { <<Prefix(<<192, 168, 0, 0>>, 24), 0>>,
      <<Prefix(<<192, 168, 0, 0>>, 24), 25>> }

InitTimer == InitWith(TimerInputs)

\* Update(tea.KeyMsg) in the event loop, with the handler of the source
TimerPress(key) ==
    Deliver(handleKeyPress(model, key),
            key \in {"s", "x"} /\ Effective(model, key), TimerMutations, PendingTimers)

TimerQuit == TimerPress("q")
TimerDown == TimerPress("down")
TimerSplit == TimerPress("s")
TimerExport == TimerPress("e")
TimerCopy == TimerPress("c")

NextTimer ==
    \/ TimerQuit
    \/ TimerDown
    \/ TimerSplit
    \/ TimerExport
    \/ TimerCopy
    \/ Tick
    \/ QuitMsg

SpecTimer == InitTimer /\ [][NextTimer]_vars

-----------------------------------------------------------------------------
(* SpecPage: cursor and page keys on tables of 1 and 8 rows, under window  *)
(* sizes that give page sizes of 3, 4 and 14 rows.                         *)

PageInputs ==
    { <<Prefix(<<192, 168, 0, 0>>, 24), 27>>,
      <<Prefix(<<192, 168, 0, 0>>, 24), 0>> }

PageSizes == { <<80, 24>>, <<80, 14>>, <<40, 12>> }

InitPage == InitWith(PageInputs)

PageUp == Press("pgup", 0)
PageDown == Press("pgdown", 0)
PageCursorUp == Press("up", 0)
PageCursorDown == Press("down", 0)
PageResize == \E sz \in PageSizes : Resize(sz[1], sz[2])

NextPage ==
    \/ PageUp
    \/ PageDown
    \/ PageCursorUp
    \/ PageCursorDown
    \/ PageResize

SpecPage == InitPage /\ [][NextPage]_vars

-----------------------------------------------------------------------------
(* SpecCalc: the functions of package subnet called on their own *)

AddrBitsInputs == {32, 128}

Called(op, args, out, err) == [op |-> op, args |-> args, out |-> out, err |-> err]

InitCalc ==
    /\ CalcIdle
    /\ NetIdle
    /\ TreeIdle
    /\ UiIdle

CidrInputs ==
    {
      \* "10.12.34.56/19"
      <<"1", "0", ".", "1", "2", ".", "3", "4", ".", "5", "6", "/", "1", "9">>,
      \* "192.168.1.100/24"
      <<"1", "9", "2", ".", "1", "6", "8", ".", "1", ".", "1", "0", "0", "/", "2", "4">>,
      \* "0.0.0.0/0"
      <<"0", ".", "0", ".", "0", ".", "0", "/", "0">>,
      \* "255.255.255.255/32"
      <<"2", "5", "5", ".", "2", "5", "5", ".", "2", "5", "5", ".", "2", "5", "5", "/", "3", "2">>,
      \* "0.0.0.0/32"
      <<"0", ".", "0", ".", "0", ".", "0", "/", "3", "2">>,
      \* "10.0.0.1/31"
      <<"1", "0", ".", "0", ".", "0", ".", "1", "/", "3", "1">>,
      \* "172.16.5.4/30"
      <<"1", "7", "2", ".", "1", "6", ".", "5", ".", "4", "/", "3", "0">>,
      \* "2001:db8::/64"
      <<"2", "0", "0", "1", ":", "d", "b", "8", ":", ":", "/", "6", "4">>,
      \* "2001:DB8::1/127"
      <<"2", "0", "0", "1", ":", "D", "B", "8", ":", ":", "1", "/", "1", "2", "7">>,
      \* "::/0"
      <<":", ":", "/", "0">>,
      \* "::/128"
      <<":", ":", "/", "1", "2", "8">>,
      \* "ffff:ffff:ffff:ffff:ffff:ffff:ffff:ffff/128"
      <<"f", "f", "f", "f", ":", "f", "f", "f", "f", ":", "f", "f", "f", "f", ":", "f", "f", "f", "f", ":", "f", "f", "f", "f", ":", "f", "f", "f", "f", ":", "f", "f", "f", "f", ":", "f", "f", "f", "f", "/", "1", "2", "8">>,
      \* "::ffff:10.1.2.3/100"
      <<":", ":", "f", "f", "f", "f", ":", "1", "0", ".", "1", ".", "2", ".", "3", "/", "1", "0", "0">>,
      \* "1:2:3:4:5:6:7:8/61"
      <<"1", ":", "2", ":", "3", ":", "4", ":", "5", ":", "6", ":", "7", ":", "8", "/", "6", "1">>,
      \* "fe80::1:0/112"
      <<"f", "e", "8", "0", ":", ":", "1", ":", "0", "/", "1", "1", "2">>,
      \* "invalid"
      <<"i", "n", "v", "a", "l", "i", "d">>,
      \* ""
      <<>>,
      \* "10.12.34.56"
      <<"1", "0", ".", "1", "2", ".", "3", "4", ".", "5", "6">>,
      \* "10.12.34.256/19"
      <<"1", "0", ".", "1", "2", ".", "3", "4", ".", "2", "5", "6", "/", "1", "9">>,
      \* "10.12.34/19"
      <<"1", "0", ".", "1", "2", ".", "3", "4", "/", "1", "9">>,
      \* "10.12.34.56.7/19"
      <<"1", "0", ".", "1", "2", ".", "3", "4", ".", "5", "6", ".", "7", "/", "1", "9">>,
      \* "10.12.34.56/33"
      <<"1", "0", ".", "1", "2", ".", "3", "4", ".", "5", "6", "/", "3", "3">>,
      \* "10.12.34.56/"
      <<"1", "0", ".", "1", "2", ".", "3", "4", ".", "5", "6", "/">>,
      \* "10.12.34.56/-1"
      <<"1", "0", ".", "1", "2", ".", "3", "4", ".", "5", "6", "/", "-", "1">>,
      \* "10.12.34.56/1x"
      <<"1", "0", ".", "1", "2", ".", "3", "4", ".", "5", "6", "/", "1", "x">>,
      \* "10.012.34.56/19"
      <<"1", "0", ".", "0", "1", "2", ".", "3", "4", ".", "5", "6", "/", "1", "9">>,
      \* "10..34.56/19"
      <<"1", "0", ".", ".", "3", "4", ".", "5", "6", "/", "1", "9">>,
      \* "10.0.0.0/8/9"
      <<"1", "0", ".", "0", ".", "0", ".", "0", "/", "8", "/", "9">>,
      \* "2001:db8::1/129"
      <<"2", "0", "0", "1", ":", "d", "b", "8", ":", ":", "1", "/", "1", "2", "9">>,
      \* "1::2::3/64"
      <<"1", ":", ":", "2", ":", ":", "3", "/", "6", "4">>,
      \* "fe80::1%eth0/64"
      <<"f", "e", "8", "0", ":", ":", "1", "%", "e", "t", "h", "0", "/", "6", "4">>,
      \* "1:2:3:4:5:6:7/64"
      <<"1", ":", "2", ":", "3", ":", "4", ":", "5", ":", "6", ":", "7", "/", "6", "4">>,
      \* "1:2:3:4:5:6:7:8:9/64"
      <<"1", ":", "2", ":", "3", ":", "4", ":", "5", ":", "6", ":", "7", ":", "8", ":", "9", "/", "6", "4">>,
      \* "12345::/16"
      <<"1", "2", "3", "4", "5", ":", ":", "/", "1", "6">>,
      \* "1:2:3:4:5:6:7::8/64"
      <<"1", ":", "2", ":", "3", ":", "4", ":", "5", ":", "6", ":", "7", ":", ":", "8", "/", "6", "4">>,
      \* "g::/8"
      <<"g", ":", ":", "/", "8">>,
      \* "1:2:3:4:5:6:7:10.1.2.3/64"
      <<"1", ":", "2", ":", "3", ":", "4", ":", "5", ":", "6", ":", "7", ":", "1", "0", ".", "1", ".", "2", ".", "3", "/", "6", "4">> }

CallNewNetwork(cidr) ==
    /\ \E r \in {NewNetwork(cidr)} :
          calc' = Called("NewNetwork", <<cidr>>, r.net, r.err)
    /\ UNCHANGED <<netVars, treeVars, uiVars>>

CallCalculateMaxHosts(addrBits, maskBits) ==
    /\ calc' = Called("CalculateMaxHosts", <<addrBits, maskBits>>,
                      CalculateMaxHosts(addrBits, maskBits), ErrNone)
    /\ UNCHANGED <<netVars, treeVars, uiVars>>

\* the largest stored verticalScroll and the largest viewportHeight tried
MaxStoredScroll == 8
MaxViewport == 5

\* the tables calculateVerticalScroll is called on: 192.168.0.0/24 as 1, 2
\* and 4 rows
ScrollTargets == {0, 25, 26}

ScrollModel(targetBits, cursor, stored) ==
    [NewModel(Prefix(<<192, 168, 0, 0>>, 24), targetBits)
        EXCEPT !.cursor = cursor, !.verticalScroll = stored]

\* every cursor position on those tables, with every stored offset
ScrollModels ==
    { mdl \in { ScrollModel(targetBits, cursor, stored) :
                    targetBits \in ScrollTargets, cursor \in 0..3,
                    stored \in 0..MaxStoredScroll } :
        mdl.cursor < Len(mdl.rows) }

CallCalculateVerticalScroll(mdl, viewportHeight) ==
    /\ calc' = Called("calculateVerticalScroll",
                      <<Len(mdl.rows), mdl.cursor, mdl.verticalScroll,
                        viewportHeight>>,
                      <<calculateVerticalScroll(mdl, viewportHeight)>>,
                      ErrNone)
    /\ UNCHANGED <<netVars, treeVars, uiVars>>

\* NewModel is called on these texts, each with these values of targetBits
NewModelInputs ==
    {
      \* "192.168.1.0/24"
      <<<<"1", "9", "2", ".", "1", "6", "8", ".", "1", ".", "0", "/", "2", "4">>,
        {0, 23, 24, 25, 26, 27, 31}>>,
      \* "10.0.0.9/28"
      <<<<"1", "0", ".", "0", ".", "0", ".", "9", "/", "2", "8">>,
        {0, 29, 30, 31}>>,
      \* "172.16.5.4/30"
      <<<<"1", "7", "2", ".", "1", "6", ".", "5", ".", "4", "/", "3", "0">>,
        {0, 30, 31}>>,
      \* "10.0.0.1/31"
      <<<<"1", "0", ".", "0", ".", "0", ".", "1", "/", "3", "1">>,
        {0, 31, 32}>>,
      \* "255.255.255.255/32"
      <<<<"2", "5", "5", ".", "2", "5", "5", ".", "2", "5", "5", ".", "2", "5", "5", "/", "3", "2">>,
        {0}>>,
      \* "2001:db8::/64"
      <<<<"2", "0", "0", "1", ":", "d", "b", "8", ":", ":", "/", "6", "4">>,
        {0, 30, 64, 65}>>,
      \* "2001:db8::/28"
      <<<<"2", "0", "0", "1", ":", "d", "b", "8", ":", ":", "/", "2", "8">>,
        {0, 29, 30, 31}>>,
      \* "invalid"
      <<<<"i", "n", "v", "a", "l", "i", "d">>,
        {0, 26}>>,
      \* ""
      <<<<>>,
        {0}>>,
      \* "10.12.34.56/33"
      <<<<"1", "0", ".", "1", "2", ".", "3", "4", ".", "5", "6", "/", "3", "3">>,
        {0}>>,
      \* "192.168.1.0"
      <<<<"1", "9", "2", ".", "1", "6", "8", ".", "1", ".", "0">>,
        {25}>> }

\* NewModel once netip.ParsePrefix has returned
NewModelParsed(parsed, targetBits) ==
    IF ~parsed.ok THEN [model |-> ZeroModel, err |-> ErrInvalidCIDR]
    ELSE [model |-> NewModel(Prefix(parsed.addr, parsed.bits), targetBits),
          err |-> NewModelErr(Prefix(parsed.addr, parsed.bits), targetBits)]

\* NewModel on the text of a CIDR
NewModelOf(text, targetBits) == NewModelParsed(ParsePrefix(text), targetBits)

CallNewModel(text, targetBits) ==
    /\ \E parsed \in {ParsePrefix(text)} :
       \E r \in {NewModelParsed(parsed, targetBits)} :
          calc' = Called("NewModel", <<text, targetBits>>, r.model, r.err)
    /\ UNCHANGED <<netVars, treeVars, uiVars>>

-----------------------------------------------------------------------------
(* buildSpanCell.  A string is the sequence of its runes; a box-drawing     *)
(* rune is written by its code point.                                        *)

\* type spanInfo: a new spanInfo{node, startRow}
spanInfo(node, startRow) ==
    [node |-> node, startRow |-> startRow, endRow |-> 0, rowCount |-> 0]

BoxVertical   == "U+2502"
BoxHorizontal == "U+2500"
BoxDownRight  == "U+250C"
BoxDownLeft   == "U+2510"
BoxUpRight    == "U+2514"
BoxUpLeft     == "U+2518"

\* strings.Repeat of a one-rune string
Repeat(c, count) == [i \in 1..count |-> c]

DecimalDigits == <<"0", "1", "2", "3", "4", "5", "6", "7", "8", "9">>

\* the verb %d on an int that is not negative
RECURSIVE FormatInt(_)
FormatInt(v) ==
    IF v < 10 THEN <<DecimalDigits[v + 1]>>
    ELSE FormatInt(v \div 10) \o <<DecimalDigits[(v % 10) + 1]>>

\* fmt.Sprintf("%*s", width, str) with width >= 0: pads on the left
PadLeft(width, str) ==
    IF Len(str) >= width THEN str ELSE Repeat(" ", width - Len(str)) \o str

\* fmt.Sprintf("%-*s", width, str) with width >= 0: pads on the right
PadRight(width, str) ==
    IF Len(str) >= width THEN str ELSE str \o Repeat(" ", width - Len(str))

\* buildSpanCell: label and paddedLabel
SpanLabel(bits) == <<"/">> \o FormatInt(bits)

PaddedLabel(bits, innerWidth) ==
    PadRight(innerWidth,
             PadLeft((innerWidth + Len(SpanLabel(bits))) \div 2, SpanLabel(bits)))

\* buildSpanCell with the midpoint at spanSize / 2
buildSpanCellMidHalf(span, rowIdx, bits, splitColWidth) ==
    LET posInSpan  == rowIdx - span.startRow
        spanSize   == span.rowCount
        isFirst    == posInSpan = 0
        isLast     == posInSpan = spanSize - 1
        midPoint   == spanSize \div 2
        isMid      == posInSpan = midPoint
        innerWidth == splitColWidth - 2
        labelRow   == <<BoxVertical>> \o PaddedLabel(bits, innerWidth) \o <<BoxVertical>>
        opening    == <<BoxDownRight>> \o Repeat(BoxHorizontal, innerWidth) \o <<BoxDownLeft>>
        closing    == <<BoxUpRight>> \o Repeat(BoxHorizontal, innerWidth) \o <<BoxUpLeft>>
    IN  IF spanSize = 1 THEN labelRow
        ELSE IF spanSize = 2 THEN (IF isFirst THEN labelRow ELSE closing)
        ELSE IF isFirst THEN opening
        ELSE IF isLast THEN closing
        ELSE IF isMid THEN labelRow
        ELSE <<BoxVertical>> \o Repeat(" ", innerWidth) \o <<BoxVertical>>

buildSpanCell(span, rowIdx, bits, splitColWidth) ==
    LET posInSpan  == rowIdx - span.startRow
        spanSize   == span.rowCount
        isFirst    == posInSpan = 0
        isLast     == posInSpan = spanSize - 1
        midPoint   == (spanSize - 1) \div 2
        isMid      == posInSpan = midPoint
        innerWidth == splitColWidth - 2
        labelRow   == <<BoxVertical>> \o PaddedLabel(bits, innerWidth) \o <<BoxVertical>>
        opening    == <<BoxDownRight>> \o Repeat(BoxHorizontal, innerWidth) \o <<BoxDownLeft>>
        closing    == <<BoxUpRight>> \o Repeat(BoxHorizontal, innerWidth) \o <<BoxUpLeft>>
    IN  IF spanSize = 1 THEN labelRow
        ELSE IF spanSize = 2 THEN (IF isFirst THEN labelRow ELSE closing)
        ELSE IF spanSize = 3
             THEN (IF isFirst THEN opening ELSE IF isLast THEN closing ELSE labelRow)
        ELSE IF isFirst THEN opening
        ELSE IF isLast THEN closing
        ELSE IF isMid THEN labelRow
        ELSE <<BoxVertical>> \o Repeat(" ", innerWidth) \o <<BoxVertical>>

\* the longest span buildSpanCell is called on
MaxSpanRows == 6

\* the column depths and the column widths of the calls; 5 is the width
\* render passes
SpanBits == {0, 8, 24, 30}

SpanWidths == {5, 8}

SpanStarts == {0, 3}

CallBuildSpanCell(rowCount, startRow, rowIdx, bits, splitColWidth) ==
    /\ calc' = Called("buildSpanCell",
                      <<rowCount, startRow, rowIdx, bits, splitColWidth>>,
                      <<buildSpanCell([spanInfo(Nil, startRow) EXCEPT
                                          !.endRow = startRow + rowCount - 1,
                                          !.rowCount = rowCount],
                                      rowIdx, bits, splitColWidth)>>,
                      ErrNone)
    /\ UNCHANGED <<netVars, treeVars, uiVars>>

-----------------------------------------------------------------------------
(* AddToAddr on every int.  The argument n and the variables carry and sum  *)
(* are Go ints of 64 bits; beyond the integers of the model an int is the   *)
(* sequence of its 8 bytes in two's complement, first byte highest.  For    *)
(* an n within the integers of the model this is AddToAddr above.           *)

IntBytes == 8

\* int(bytes[i]) + carry: the sum of an int and a byte, wrapping at 2^64
IntAddByte(x, b) == AddLoop(x, Len(x), b)

\* carry > 0
IntPositive(x) == x[1] < 128 /\ \E i \in 1..Len(x) : x[i] # 0

\* sum >> 8: the arithmetic shift keeps the sign
IntShiftRight8(x) ==
    <<IF x[1] >= 128 THEN 255 ELSE 0>> \o SubSeq(x, 1, Len(x) - 1)

\* AddToAddr: the carry loop, on ints of 64 bits
RECURSIVE AddLoopInt(_, _, _)
AddLoopInt(bytes, i, carry) ==
    IF i >= 1 /\ IntPositive(carry)
    THEN LET sum == IntAddByte(carry, bytes[i])
         IN  AddLoopInt([bytes EXCEPT ![i] = sum[Len(sum)]], i - 1,
                        IntShiftRight8(sum))
    ELSE bytes

AddToAddrInt(addr, n) == AddLoopInt(addr, Len(addr), n)

\* the int v of the model as 8 bytes (v >= 0)
IntOf(v) ==
    [i \in 1..IntBytes |->
        IF i <= 4 THEN 0
        ELSE (v \div (CASE i = 5 -> 16777216 [] i = 6 -> 65536
                        [] i = 7 -> 256 [] OTHER -> 1)) % 256]

\* math.MaxInt64 - k, for k < 256
MaxIntMinus(k) == <<127, 255, 255, 255, 255, 255, 255, 255 - k>>

\* the addresses and the ints AddToAddr is called on
AddrInputs ==
    { <<0, 0, 0, 1>>, <<10, 0, 0, 255>>, <<192, 168, 255, 255>>,
      <<255, 255, 255, 255>>,
      <<0, 0, 0, 0, 0, 0, 0, 0, 0, 0, 0, 0, 0, 0, 0, 1>>,
      <<32, 1, 13, 184, 0, 0, 0, 0, 0, 0, 0, 0, 0, 0, 255, 255>>,
      <<32, 1, 13, 184, 0, 0, 0, 0, 255, 255, 255, 255, 255, 255, 255, 255>>,
      <<255, 255, 255, 255, 255, 255, 255, 255,
        255, 255, 255, 255, 255, 255, 255, 255>> }

AddendInputs ==
    { IntOf(0), IntOf(1), IntOf(2), IntOf(255), IntOf(256), IntOf(65536),
      IntOf(16777215), IntOf(2147483647),
      <<0, 0, 0, 1, 0, 0, 0, 0>>,
      <<64, 0, 0, 0, 0, 0, 0, 0>>,
      MaxIntMinus(255), MaxIntMinus(1), MaxIntMinus(0) }

CallAddToAddr(addr, n) ==
    /\ calc' = Called("AddToAddr", <<addr, n>>, <<AddToAddrInt(addr, n)>>, ErrNone)
    /\ UNCHANGED <<netVars, treeVars, uiVars>>

\* the result of a call has been taken; the next call can be made
CalcReturn ==
    /\ ~CalcIdle
    /\ calc' = NoCalc
    /\ UNCHANGED <<netVars, treeVars, uiVars>>

NextCalc ==
    \/ CalcIdle /\ \E cidr \in CidrInputs : CallNewNetwork(cidr)
    \/ CalcIdle /\ \E mdl \in ScrollModels : \E viewportHeight \in 1..MaxViewport :
          CallCalculateVerticalScroll(mdl, viewportHeight)
    \/ CalcIdle /\ \E addrBits \in AddrBitsInputs : \E maskBits \in 0..(addrBits + 1) :
          CallCalculateMaxHosts(addrBits, maskBits)
    \/ CalcIdle /\ \E in \in NewModelInputs : \E targetBits \in in[2] :
          CallNewModel(in[1], targetBits)
    \/ CalcIdle /\ \E rowCount \in 1..MaxSpanRows : \E startRow \in SpanStarts :
          \E rowIdx \in startRow..(startRow + rowCount - 1) :
          \E bits \in SpanBits : \E splitColWidth \in SpanWidths :
             CallBuildSpanCell(rowCount, startRow, rowIdx, bits, splitColWidth)
    \/ CalcIdle /\ \E addr \in AddrInputs : \E n \in AddendInputs :
          CallAddToAddr(addr, n)
    \/ CalcReturn

SpecCalc == InitCalc /\ [][NextCalc]_vars

-----------------------------------------------------------------------------
(* Properties *)

IsPrefix(a, b) == Len(a) <= Len(b) /\ SubSeq(b, 1, Len(a)) = a

\* the networks of the leaves of a tree, left to right
LeafNets(h) ==
    LET leaves == collectLeaves(h, Root)
    IN  [i \in 1..Len(leaves) |-> h[leaves[i]].Network]

LeafCIDRs(h) == {LeafNets(h)[i].CIDR : i \in 1..Len(LeafNets(h))}

RowCIDRs(mdl) == {mdl.root[mdl.rows[i]].Network.CIDR : i \in 1..Len(mdl.rows)}

\* the model after a key press, the history's keys included
After(mdl, key) == handleKeyPressHistory(mdl, key).model

\* C1 (partition invariant): in every tree reached by Split, SplitToDepth and
\* Join calls on any nodes, the leaves collected left to right are in ascending
\* address order, each leaf starts right after the broadcast address of the
\* one before it, no two overlap, the first starts at the root's network
\* address and the last ends at the root's broadcast address.
C1_Partition ==
    LET L == LeafNets(nodes)
        R == nodes[Root].Network
    IN  /\ Len(L) >= 1
        /\ L[1].NetworkAddr = R.NetworkAddr
        /\ L[Len(L)].BroadcastAddr = R.BroadcastAddr
        /\ \A i \in 1..Len(L) : AddrLeq(L[i].NetworkAddr, L[i].BroadcastAddr)
        /\ \A i \in 1..(Len(L) - 1) :
              L[i + 1].NetworkAddr = AddToAddr(L[i].BroadcastAddr, 1)
        /\ \A i, j \in 1..Len(L) :
              i < j => AddrLess(L[i].BroadcastAddr, L[j].NetworkAddr)

\* a Join has just collapsed part of a tree that still has three leaves or more
C1_Witness ==
    /\ treeop.op = "Join"
    /\ treeop.ret
    /\ Len(LeafNets(nodes)) >= 3
    /\ Len(LeafNets(treeop.before)) > Len(LeafNets(nodes))

\* C2 (split count law): after Network.Split(targetBits) with
\* MaskBits < targetBits <= address width and 2^(targetBits-MaskBits) at most
\* 1,000,000, the call succeeded, Subnets holds exactly 2^(targetBits-MaskBits)
\* networks and each starts at the address after its predecessor's broadcast.
C2_SplitCount ==
    LET t  == netop.targetBits
        b  == net.MaskBits
        ok == /\ netop.called
              /\ b < t
              /\ t <= BitLen(net.CIDR.addr)
              /\ t - b < 31
              /\ Pow2(t - b) <= 1000000
    IN  ok => /\ netop.err = ErrNone
              /\ Len(net.Subnets) = Pow2(t - b)
              /\ \A i \in 1..(Len(net.Subnets) - 1) :
                    net.Subnets[i + 1].NetworkAddr
                        = AddrNext(net.Subnets[i].BroadcastAddr)

\* a split into at least four subnets across a byte boundary
C2_Witness ==
    /\ netop.called
    /\ netop.err = ErrNone
    /\ Len(net.Subnets) >= 4
    /\ net.Subnets[1].NetworkAddr[3] # net.Subnets[Len(net.Subnets)].NetworkAddr[3]

\* C3 (undo/redo round trip): from any state of the running model with N
\* rows in which the split key succeeds, split then undo gives N rows again
\* with the leaf CIDR set of before the split and status "Undone", and a redo
\* after that gives the leaf CIDR set of after the split and status "Redone".
C3_UndoRedoRoundTrip ==
    Running /\ Effective(model, "s") =>
        \A s1 \in {After(model, "s")} :
        \A u \in {After(s1, "u")} :
        \A r \in {After(u, "r")} :
            /\ Len(u.rows) = Len(model.rows)
            /\ RowCIDRs(u) = RowCIDRs(model)
            /\ LeafCIDRs(u.root) = LeafCIDRs(model.root)
            /\ u.statusMsg = "Undone"
            /\ Len(r.rows) = Len(model.rows) + 1
            /\ RowCIDRs(r) = RowCIDRs(s1)
            /\ RowCIDRs(r) = LeafCIDRs(s1.root)
            /\ r.statusMsg = "Redone"

\* a redo has just re-applied a split: the tree kept for undo has one leaf less
C3_Witness ==
    /\ Running
    /\ model.statusMsg = "Redone"
    /\ model.redoStack = <<>>
    /\ Len(model.undoStack) = 1
    /\ Len(LeafNets(model.undoStack[1])) + 1 = Len(model.rows)

\* C4 (redo invalidation): a successful split or join key press leaves the
\* redo stack empty; after split, undo, split, a redo key press changes
\* neither the tree nor the rows and sets the status "Nothing to redo".
C4_RedoInvalidated ==
    Running =>
        /\ Effective(model, "x") => After(model, "x").redoStack = <<>>
        /\ Effective(model, "s") =>
              \A s1 \in {After(model, "s")} :
              \A u1 \in {After(s1, "u")} :
              \A s2 \in {After(u1, "s")} :
              \A r \in {After(s2, "r")} :
                  /\ s1.redoStack = <<>>
                  /\ s2.root # model.root
                  /\ r.root = s2.root
                  /\ r.rows = s2.rows
                  /\ r.statusMsg = "Nothing to redo"

\* split, undo, split, then a redo that found nothing: two mutations, one
\* tree kept for undo (the unsplit root), the root split once
C4_Witness ==
    /\ Running
    /\ model.statusMsg = "Nothing to redo"
    /\ mutations = 2
    /\ model.redoStack = <<>>
    /\ Len(model.undoStack) = 1
    /\ ~model.undoStack[1][Root].IsSplit
    /\ Len(model.rows) = 2

\* C5 (undo cap): the undo stack never holds more than 50 entries; once 50
\* mutations have been made it holds exactly 50 (so after 110 of them too),
\* and a mutation on a full stack drops the oldest entry and keeps the rest.
C5_UndoCap ==
    /\ Len(model.undoStack) <= 50
    /\ mutations >= 50 => Len(model.undoStack) = 50
    /\ \A key \in {"s", "x"} :
          Running /\ Effective(model, key) /\ Len(model.undoStack) = 50 =>
              LET after == After(model, key).undoStack
              IN  /\ Len(after) = 50
                  /\ SubSeq(after, 1, 49) = Tail(model.undoStack)

\* 55 split+join cycles have been made
C5_Witness ==
    /\ mutations = 110
    /\ Len(model.undoStack) = 50
    /\ Len(model.rows) = 1

\* C6 (cursor bounds): while the program runs, rows is not empty and
\* 0 <= cursor <= len(rows)-1.
C6_CursorInBounds ==
    Running =>
        /\ Len(model.rows) >= 1
        /\ model.cursor >= 0
        /\ model.cursor <= Len(model.rows) - 1

\* one join on the table of four /30 has merged the last two rows into their
\* /29, and the cursor sits on that row, the last of the three left
C6_Witness ==
    /\ Running
    /\ mutations = 1
    /\ Len(model.rows) = 3
    /\ model.cursor = 2
    /\ model.root[model.rows[1]].Network.CIDR.bits = 30
    /\ model.root[model.rows[3]].Network.CIDR.bits = 29

\* C7 (Join): Join on an unsplit node returns false and changes nothing; on
\* a split node it returns true, every descendant of the node is gone, the
\* node is a leaf without children, and the rest of the tree is as before.
C7_Join ==
    treeop.op = "Join" =>
        LET n == treeop.node
            b == treeop.before
        IN  /\ treeop.ret = b[n].IsSplit
            /\ ~treeop.ret => nodes = b
            /\ treeop.ret =>
                  /\ ~nodes[n].IsSplit
                  /\ nodes[n].Children = <<>>
                  /\ nodes[n].Network = b[n].Network
                  /\ nodes[n].Parent = b[n].Parent
                  /\ DOMAIN nodes = {p \in DOMAIN b : ~IsPrefix(n, p)} \cup {n}
                  /\ \A p \in DOMAIN nodes \ {n} : nodes[p] = b[p]
                  /\ LeafNets(nodes) # LeafNets(b)

\* a Join has collapsed a node that had grandchildren
C7_Witness ==
    /\ treeop.op = "Join"
    /\ treeop.ret
    /\ \E p \in DOMAIN treeop.before :
          IsPrefix(treeop.node, p) /\ Len(p) >= Len(treeop.node) + 2

\* C8 (Split): Split returns false and changes nothing when the node is
\* split already or its prefix length is 30 or more; else it returns true and
\* the node is split into exactly two unsplit children of prefix length + 1
\* whose parent is the node, the first at the node's network address and the
\* second right after the first one's broadcast address.
C8_Split ==
    treeop.op = "Split" =>
        LET n    == treeop.node
            b    == treeop.before
            bits == b[n].Network.MaskBits
        IN  /\ treeop.ret = ~(b[n].IsSplit \/ bits >= 30)
            /\ ~treeop.ret => nodes = b
            /\ treeop.ret =>
                  /\ nodes[n].IsSplit
                  /\ Len(nodes[n].Children) = 2
                  /\ nodes[n].Children[1] # nodes[n].Children[2]
                  /\ nodes[n].Network = b[n].Network
                  /\ nodes[n].Parent = b[n].Parent
                  /\ DOMAIN nodes = DOMAIN b \cup {nodes[n].Children[1], nodes[n].Children[2]}
                  /\ \A p \in DOMAIN b \ {n} : nodes[p] = b[p]
                  /\ \A i \in 1..2 :
                        LET c == nodes[nodes[n].Children[i]]
                        IN  /\ nodes[n].Children[i] \notin DOMAIN b
                            /\ c.Network.MaskBits = bits + 1
                            /\ c.Network.CIDR.bits = bits + 1
                            /\ c.Parent = <<n>>
                            /\ ~c.IsSplit
                            /\ c.Children = <<>>
                  /\ nodes[nodes[n].Children[1]].Network.NetworkAddr
                        = b[n].Network.NetworkAddr
                  /\ nodes[nodes[n].Children[2]].Network.NetworkAddr
                        = AddToAddr(nodes[nodes[n].Children[1]].Network.BroadcastAddr, 1)

\* a node below the root has been split
C8_Witness ==
    /\ treeop.op = "Split"
    /\ treeop.ret
    /\ treeop.node # Root
    /\ nodes[treeop.node].IsSplit

\* C9 (Split/Join inverse): a successful Split of a node followed by a Join
\* of that node leaves the heap exactly as it was before the Split.
C9_SplitJoinInverse ==
    treeop.op = "Join" /\ treeop.splitBefore # <<>> =>
        /\ nodes = treeop.splitBefore[1]
        /\ ~nodes[treeop.node].IsSplit
        /\ nodes[treeop.node].Children = <<>>

\* a node of a tree that has other split nodes was split and joined again
C9_Witness ==
    /\ treeop.op = "Join"
    /\ treeop.splitBefore # <<>>
    /\ treeop.ret
    /\ treeop.node # Root
    /\ nodes[Root].IsSplit

\* C10 (Split errors): Network.Split fails with the target-not-larger error
\* when targetBits <= MaskBits, and fails when targetBits is beyond the
\* address width (32 or 128); either way Subnets is left as it was.
C10_SplitRejects ==
    LET t == netop.targetBits
        w == IF Len(net.CIDR.addr) = 4 THEN 32 ELSE 128
    IN  netop.called =>
          /\ t <= net.MaskBits =>
                /\ netop.err = ErrTargetNotLarger
                /\ net.Subnets = netop.before
          /\ t > net.MaskBits /\ t > w =>
                /\ netop.err = ErrExceedsMaximum
                /\ net.Subnets = netop.before

\* a Network that holds subnets from an earlier split has rejected a target
\* equal to its own prefix length
C10_Witness ==
    /\ netop.called
    /\ netop.targetBits = net.MaskBits
    /\ netop.err = ErrTargetNotLarger
    /\ netop.before # <<>>
    /\ net.Subnets = netop.before

\* the number of subnets 2^d is above the generation cap of 1,000,000
AboveCap(d) == d >= 31 \/ Pow2(d) > 1000000

\* C11 (generation cap): for MaskBits < targetBits <= address width,
\* Network.Split fails with the too-many-subnets error, generates nothing and
\* leaves Subnets as it was whenever 2^(targetBits-MaskBits) > 1,000,000, and
\* succeeds whenever that count is at most 1,000,000, for every difference
\* up to 128 bits.
C11_GenerationCap ==
    /\ \A t \in TargetInputs :
          LET d == t - net.MaskBits
          IN  net.MaskBits < t /\ t <= BitLen(net.CIDR.addr) =>
                 /\ AboveCap(d) => /\ NetworkSplitErr(net, t) = ErrTooMany
                                   /\ NetworkSplit(net, t) = net
                 /\ ~AboveCap(d) => NetworkSplitErr(net, t) = ErrNone
    /\ netop.called /\ netop.err = ErrTooMany => net.Subnets = netop.before
    /\ LET d == netop.targetBits - net.MaskBits
       IN  /\ netop.called
           /\ net.MaskBits < netop.targetBits
           /\ netop.targetBits <= BitLen(net.CIDR.addr)
           => IF AboveCap(d)
              THEN netop.err = ErrTooMany /\ net.Subnets = netop.before
              ELSE netop.err = ErrNone /\ Len(net.Subnets) = Pow2(d)

\* a /0 IPv6 network that holds subnets has refused a split to /128
C11_Witness ==
    /\ netop.called
    /\ netop.err = ErrTooMany
    /\ netop.targetBits - net.MaskBits = 128
    /\ netop.before # <<>>
    /\ net.Subnets = netop.before

\* the base-256 digits of 2^h - 2, least significant first (none when h <= 1)
TwoToTheMinusTwo(h) ==
    IF h <= 1 THEN <<>>
    ELSE IF h < 8 THEN <<Pow2(h) - 2>>
    ELSE <<254>> \o [i \in 1..((h \div 8) - 1) |-> 255]
                 \o (IF h % 8 = 0 THEN <<>> ELSE <<Pow2(h % 8) - 1>>)

\* C12 (host count law): CalculateMaxHosts(addrBits, maskBits) is
\* 2^(addrBits-maskBits) - 2 when that is positive and 0 otherwise (host bits
\* <= 1); it is never negative and exact beyond 64 bits:
\* (32,24) gives 254, (32,30) gives 2, (32,31) gives 0, (128,64) gives 2^64-2.
C12_MaxHosts ==
    calc.op = "CalculateMaxHosts" =>
        LET addrBits == calc.args[1]
            maskBits == calc.args[2]
        IN  /\ ~calc.out.neg
            /\ calc.out.mag = TwoToTheMinusTwo(addrBits - maskBits)
            /\ addrBits - maskBits <= 1 => calc.out.mag = <<>>
            /\ calc.args = <<32, 24>> => calc.out.mag = <<254>>
            /\ calc.args = <<32, 30>> => calc.out.mag = <<2>>
            /\ calc.args = <<32, 31>> => calc.out.mag = <<>>
            /\ calc.args = <<128, 127>> => calc.out.mag = <<>>
            /\ calc.args = <<32, 19>> => calc.out.mag = <<254, 31>>
            /\ calc.args = <<128, 64>> =>
                  calc.out.mag = <<254, 255, 255, 255, 255, 255, 255, 255>>

\* CalculateMaxHosts(128, 64) has returned 2^64 - 2
C12_Witness ==
    /\ calc.op = "CalculateMaxHosts"
    /\ calc.args = <<128, 64>>
    /\ Len(calc.out.mag) = 8
    /\ calc.out.mag[1] = 254
    /\ calc.out.mag[8] = 255

\* bit k of an address, counted from 1 at the most significant end
AddrBit(addr, k) ==
    (addr[((k - 1) \div 8) + 1] \div Pow2(7 - ((k - 1) % 8))) % 2

\* b is the address that follows a
IsSucc(a, b) ==
    /\ Len(a) = Len(b)
    /\ \E i \in 1..Len(a) :
          /\ a[i] < 255
          /\ b[i] = a[i] + 1
          /\ \A j \in 1..Len(a) : /\ j < i => b[j] = a[j]
                                  /\ j > i => a[j] = 255 /\ b[j] = 0

\* the text 10.12.34.56/19
Cidr1019 == <<"1", "0", ".", "1", "2", ".", "3", "4", ".", "5", "6", "/", "1", "9">>

\* C13 (NewNetwork): on a parsable CIDR a/b NewNetwork returns no error and a
\* Network whose cidr and networkAddr are a with the host bits cleared,
\* whose subnetMask has exactly the first b bits set, whose broadcastAddr is
\* networkAddr with the host bits set, with firstHostIP = networkAddr + 1,
\* lastHostIP = broadcastAddr - 1 and maskBits = b (10.12.34.56/19 gives
\* 10.12.32.0/19, broadcast 10.12.63.255, hosts 10.12.32.1 to 10.12.63.254,
\* mask 255.255.224.0, maxHosts 8190); on an unparsable text it returns an
\* error.
C13_NewNetwork ==
    calc.op = "NewNetwork" =>
        LET parsed == ParsePrefix(calc.args[1])
            a      == parsed.addr
            b      == parsed.bits
            n      == calc.out
            w      == 8 * Len(a)
        IN  IF ~parsed.ok THEN calc.err # ErrNone
            ELSE /\ calc.err = ErrNone
                 /\ n.CIDR.bits = b
                 /\ n.MaskBits = b
                 /\ n.CIDR.addr = n.NetworkAddr
                 /\ Len(n.NetworkAddr) = Len(a)
                 /\ Len(n.SubnetMask) = Len(a)
                 /\ Len(n.BroadcastAddr) = Len(a)
                 /\ \A k \in 1..w :
                       /\ AddrBit(n.SubnetMask, k) = (IF k <= b THEN 1 ELSE 0)
                       /\ AddrBit(n.NetworkAddr, k)
                             = (IF k <= b THEN AddrBit(a, k) ELSE 0)
                       /\ AddrBit(n.BroadcastAddr, k)
                             = (IF k <= b THEN AddrBit(a, k) ELSE 1)
                 /\ IsSucc(n.NetworkAddr, n.FirstHostIP)
                 /\ IsSucc(n.LastHostIP, n.BroadcastAddr)
                 /\ calc.args[1] = Cidr1019 =>
                       /\ n.CIDR = Prefix(<<10, 12, 32, 0>>, 19)
                       /\ n.NetworkAddr = <<10, 12, 32, 0>>
                       /\ n.BroadcastAddr = <<10, 12, 63, 255>>
                       /\ n.FirstHostIP = <<10, 12, 32, 1>>
                       /\ n.LastHostIP = <<10, 12, 63, 254>>
                       /\ n.SubnetMask = <<255, 255, 224, 0>>
                       /\ n.MaxHosts = [neg |-> FALSE, mag |-> <<254, 31>>]

\* the prefix lengths of the leaves under node n, left to right
LeafBitsUnder(h, n) ==
    LET leaves == collectLeaves(h, n)
    IN  [i \in 1..Len(leaves) |-> h[leaves[i]].Network.CIDR.bits]

\* C14 (SplitToDepth): SplitToDepth(t) on an unsplit node of prefix length
\* b changes nothing when t <= b; when b < t <= 30 every leaf under the node
\* has prefix length exactly t and there are exactly 2^(t-b) of them; where
\* Split fails (node already split, or at /30) the recursion stops on that
\* branch, so a target beyond 30 ends with leaves at /30 and a call on a
\* split node changes nothing; the nodes outside the subtree keep their
\* fields.
C14_SplitToDepth ==
    treeop.op = "SplitToDepth" =>
        LET n    == treeop.node
            t    == treeop.targetBits
            bef  == treeop.before
            b    == bef[n].Network.CIDR.bits
            bits == LeafBitsUnder(nodes, n)
        IN  /\ t <= b => nodes = bef
            /\ bef[n].IsSplit => nodes = bef
            /\ b >= 30 => nodes = bef
            /\ ~bef[n].IsSplit /\ b < t /\ t <= 30 =>
                  /\ Len(bits) = Pow2(t - b)
                  /\ \A i \in 1..Len(bits) : bits[i] = t
            /\ ~bef[n].IsSplit /\ b < 30 /\ t > 30 =>
                  /\ Len(bits) = Pow2(30 - b)
                  /\ \A i \in 1..Len(bits) : bits[i] = 30
            /\ \A p \in DOMAIN bef : p # n => p \in DOMAIN nodes /\ nodes[p] = bef[p]

\* SplitToDepth has taken an unsplit node two levels down, to four leaves
C14_Witness ==
    /\ treeop.op = "SplitToDepth"
    /\ ~treeop.before[treeop.node].IsSplit
    /\ treeop.targetBits = treeop.before[treeop.node].Network.CIDR.bits + 2
    /\ treeop.targetBits <= 30
    /\ Len(LeafBitsUnder(nodes, treeop.node)) = 4
    /\ LeafBitsUnder(nodes, treeop.node)[4] = treeop.targetBits

\* C15 (empty history): an undo key press with an empty undo stack, or a redo
\* key press with an empty redo stack, ends nothing and leaves tree, rows and
\* cursor (and both stacks) as they were; it sets the status message to
\* "Nothing to undo" or "Nothing to redo".
C15_EmptyHistory ==
    Running =>
        /\ model.undoStack = <<>> =>
              \A r \in {handleKeyPressHistory(model, "u")} :
                  /\ r.cmd # CmdQuit
                  /\ r.model.root = model.root
                  /\ r.model.rows = model.rows
                  /\ r.model.cursor = model.cursor
                  /\ r.model.undoStack = <<>>
                  /\ r.model.redoStack = model.redoStack
                  /\ r.model.statusMsg = "Nothing to undo"
        /\ model.redoStack = <<>> =>
              \A r \in {handleKeyPressHistory(model, "r")} :
                  /\ r.cmd # CmdQuit
                  /\ r.model.root = model.root
                  /\ r.model.rows = model.rows
                  /\ r.model.cursor = model.cursor
                  /\ r.model.redoStack = <<>>
                  /\ r.model.undoStack = model.undoStack
                  /\ r.model.statusMsg = "Nothing to redo"

\* undo was pressed on a model that has made no mutation, with the cursor
\* moved down a table of four rows
C15_Witness ==
    /\ Running
    /\ model.statusMsg = "Nothing to undo"
    /\ mutations = 0
    /\ model.undoStack = <<>>
    /\ model.redoStack = <<>>
    /\ Len(model.rows) = 4
    /\ model.cursor = 2

\* the models after 1..n presses of the same key
RECURSIVE PressesFrom(_, _, _)
PressesFrom(ms, key, n) ==
    IF n = 0 THEN ms
    ELSE PressesFrom(Append(ms, After(ms[Len(ms)], key)), key, n - 1)

Presses(mdl, key, n) == Tail(PressesFrom(<<mdl>>, key, n))

\* the models after 1..n mutating key presses of the run of SpecCap
RECURSIVE CapRunFrom(_, _)
CapRunFrom(ms, n) ==
    IF n = 0 THEN ms
    ELSE CapRunFrom(Append(ms, After(ms[Len(ms)], CapKey(ms[Len(ms)]))), n - 1)

CapRun(mdl, n) == Tail(CapRunFrom(<<mdl>>, n))

\* the leaf sets S0..Sk the model went through (S0 at index 1), replayed
\* from a new model on the same network
LeafHistory(mdl, k) ==
    LET m0 == NewModel(mdl.root[Root].Network.CIDR, 0)
        ms == <<m0>> \o CapRun(m0, k)
    IN  [j \in 1..(k + 1) |-> RowCIDRs(ms[j])]

\* from a model that went through S0..Sk, n undo key presses restore the n leaf
\* sets before Sk, latest first, and n redo key presses then
\* restore them in the order they were made
UndoRedoLifo(mdl, k, n) ==
    LET S == LeafHistory(mdl, k)
        U == Presses(mdl, "u", n)
        R == Presses(IF n = 0 THEN mdl ELSE U[n], "r", n)
    IN  /\ RowCIDRs(mdl) = S[k + 1]
        /\ \A j \in 1..n :
              /\ RowCIDRs(U[j]) = S[k - j + 1]
              /\ Len(U[j].rows) = Cardinality(S[k - j + 1])
              /\ RowCIDRs(R[j]) = S[k - n + j + 1]
              /\ Len(R[j].rows) = Cardinality(S[k - n + j + 1])

\* C16 as stated (whole history): after any number k of mutations through the
\* leaf sets S0..Sk, k undo key presses restore S(k-1)..S0 and k redo key
\* presses then restore S1..Sk.
C16_WholeHistory ==
    (Running /\ model.redoStack = <<>>) =>
        UndoRedoLifo(model, mutations, mutations)

\* C16 (undo/redo is last-in first-out): after k mutations through the leaf
\* sets S0..Sk, with k at most the history capacity of 50, k undo key presses
\* restore S(k-1)..S0 and k redo key presses then restore S1..Sk; after more
\* than 50 mutations the last 50 are undone and redone in that way, and one
\* more undo finds nothing to undo.
C16_UndoRedoLifo ==
    (Running /\ model.redoStack = <<>>) =>
        LET k == mutations
            n == Min(k, maxHistorySize)
            U == Presses(model, "u", n + 1)
        IN  /\ UndoRedoLifo(model, k, n)
            /\ Len(model.undoStack) = n
            /\ U[n + 1].statusMsg = "Nothing to undo"
            /\ \A j \in 1..n : U[j].statusMsg = "Undone"

\* rows went 1 -> 2 -> 3 by two splits, two undo key presses and two redo key
\* presses followed, and the table has its 3 rows again
C16_Witness ==
    /\ Running
    /\ mutations = 2
    /\ model.statusMsg = "Redone"
    /\ model.redoStack = <<>>
    /\ Len(model.undoStack) = 2
    /\ Len(model.rows) = 3
    /\ Cardinality(RowCIDRs(model)) = 3

\* the scenario of C17: 192.168.0.0/24 shown as its four /26, cursor on row 0
JoinScenario(mdl) ==
    /\ mdl.root[Root].Network.CIDR = Prefix(<<192, 168, 0, 0>>, 24)
    /\ Len(mdl.rows) = 4
    /\ \A i \in 1..4 : mdl.root[mdl.rows[i]].Network.CIDR.bits = 26
    /\ mdl.cursor = 0

\* C17 as stated: in that scenario one join key press collapses the table to
\* 1 row, undo restores the 4 rows and redo restores the 1 row.
C17_CollapsesToOne ==
    (Running /\ JoinScenario(model)) =>
        LET j == After(model, "x")
            u == After(j, "u")
            r == After(u, "r")
        IN  /\ Len(j.rows) = 1
            /\ Len(u.rows) = 4
            /\ Len(r.rows) = 1

\* C17 (join, undo, redo on the /24 pre-split to /26): with the cursor on row
\* 0 one join key press joins the parent of that row, 192.168.0.0/25, so the
\* table has 3 rows (the /25 and the two other /26); undo restores the 4 rows
\* and redo restores the 3 rows.
C17_JoinUndoRedo ==
    (Running /\ JoinScenario(model)) =>
        LET j == After(model, "x")
            u == After(j, "u")
            r == After(u, "r")
        IN  /\ Len(j.rows) = 3
            /\ RowCIDRs(j) = { Prefix(<<192, 168, 0, 0>>, 25),
                               Prefix(<<192, 168, 0, 128>>, 26),
                               Prefix(<<192, 168, 0, 192>>, 26) }
            /\ Len(u.rows) = 4
            /\ u.root = model.root
            /\ Len(r.rows) = 3
            /\ r.root = j.root

\* join was pressed on row 0 of the four /26, then undo, then redo: the table
\* has 3 rows and the tree of four /26 is on the undo stack
C17_Witness ==
    /\ Running
    /\ mutations = 1
    /\ model.statusMsg = "Redone"
    /\ model.cursor = 0
    /\ Len(model.rows) = 3
    /\ model.root[model.rows[1]].Network.CIDR = Prefix(<<192, 168, 0, 0>>, 25)
    /\ model.redoStack = <<>>
    /\ Len(model.undoStack) = 1
    /\ Len(collectLeaves(model.undoStack[1], Root)) = 4

\* what Run prints when q is pressed on mdl
QuitOutput(mdl) == runOutput(handleKeyPress(mdl, "q").model)

\* mdl after a clearStatusMsg was delivered
Cleared(mdl) == updateClearStatus(mdl).model

\* C18 (export on quit): a quit prints the tree as JSON exactly when the most
\* recent status-setting key press was export: after e the quit prints it,
\* also when the status-clear timer was delivered between e and q; after a
\* later status-setting key press (copy, undo, redo) the quit prints nothing,
\* whether or not its timer was delivered.
C18_ExportOnQuit ==
    Running =>
        LET e == After(model, "e")
        IN  /\ handleKeyPress(e, "q").cmd = CmdQuit
            /\ QuitOutput(e) = <<model.root>>
            /\ QuitOutput(Cleared(e)) = <<model.root>>
            /\ \A key \in {"c", "u", "r"} :
                  /\ QuitOutput(After(e, key)) = <<>>
                  /\ QuitOutput(Cleared(After(e, key))) = <<>>

\* the keys whose case in handleKeyPress sets a status message
StatusKeys == {"e", "c"}

\* the keys that set a status message when the handler has the history
HistoryStatusKeys == StatusKeys \cup {"u", "r"}

\* a key press that sets a status message returns the command that schedules
\* a clearStatusMsg, and no other key press does
SetsStatusSchedulesClear ==
    Running =>
        \A key \in Keys :
            /\ \A r \in {handleKeyPress(model, key)} :
                  /\ (key \in StatusKeys \/ r.model.statusMsg # model.statusMsg)
                        <=> r.cmd = CmdClearStatusAfter
                  /\ r.cmd = CmdClearStatusAfter => r.model.statusMsg # ""
            /\ \A r \in {handleKeyPressHistory(model, key)} :
                  /\ (key \in HistoryStatusKeys
                          \/ r.model.statusMsg # model.statusMsg)
                        <=> r.cmd = CmdClearStatusAfter
                  /\ r.cmd = CmdClearStatusAfter => r.model.statusMsg # ""

\* a step that puts up a new status message adds exactly one timer
NewStatusAddsTimer ==
    (~quit' /\ model'.statusMsg # "" /\ model'.statusMsg # model.statusMsg)
        => timers' = timers + 1

\* the delivery of a clearStatusMsg empties statusMsg and changes nothing else
ClearChangesOnlyStatus ==
    (~quit' /\ timers' = timers - 1)
        => /\ model' = [model EXCEPT !.statusMsg = ""]
           /\ UNCHANGED <<modelErr, quitCmd, quit, output, clipboard, mutations>>

\* a status message on display has a timer pending
StatusHasTimer == (Running /\ model.statusMsg # "") => timers > 0

\* C19 (status messages are transient): every key press that sets a status
\* message returns a command that schedules one clearStatusMsg timer; handling
\* clearStatusMsg empties statusMsg and changes nothing else; hence, timers
\* being delivered, every status message is eventually cleared.
C19_StatusCleared ==
    /\ []SetsStatusSchedulesClear
    /\ [][NewStatusAddsTimer]_vars
    /\ [][ClearChangesOnlyStatus]_vars
    /\ []StatusHasTimer
    /\ \A msg \in {StatusExport, StatusCopied} :
          (model.statusMsg = msg) ~> (model.statusMsg = "")

\* copy was pressed after a split, which put up the copied message, and the
\* timer of that message was delivered and cleared it
C19_Witness ==
    /\ Running
    /\ model.statusMsg = ""
    /\ timers = 0
    /\ mutations = 1
    /\ clipboard = <<model.root>>

\* C20 (cursor movement): the up key takes 1 from the cursor when it is above
\* 0 and leaves it at 0 otherwise; the down key adds 1 when the cursor is
\* before the last row and leaves it on the last row otherwise; neither wraps
\* around, and neither changes anything but the cursor.
C20_CursorMoves ==
    Running =>
        LET up   == handleKeyPress(model, "up")
            down == handleKeyPress(model, "down")
            last == Len(model.rows) - 1
        IN  /\ up.cmd = CmdNil
            /\ down.cmd = CmdNil
            /\ model.cursor > 0 => up.model.cursor = model.cursor - 1
            /\ model.cursor = 0 => up.model.cursor = 0
            /\ model.cursor < last => down.model.cursor = model.cursor + 1
            /\ model.cursor = last => down.model.cursor = last
            /\ up.model = [model EXCEPT !.cursor = up.model.cursor]
            /\ down.model = [model EXCEPT !.cursor = down.model.cursor]

\* the cursor was moved down to the last of the four rows
C20_Witness ==
    /\ Running
    /\ mutations = 0
    /\ Len(model.rows) = 4
    /\ model.cursor = 3

\* the number of hierarchy columns: deepest leaf prefix - initial prefix + 1
numSplitLevels(mdl) == getMaxBits(mdl) - mdl.initialPrefix + 1

\* C21 (horizontal scroll bounds): while the program runs, scrollOffset is
\* within [0, numSplitLevels-1]; a left key press at 0 and a right key press
\* at numSplitLevels-1 leave it unchanged; the bound also holds after split
\* and join key presses have changed numSplitLevels.
C21_ScrollOffsetInBounds ==
    Running =>
        /\ model.scrollOffset >= 0
        /\ model.scrollOffset <= numSplitLevels(model) - 1
        /\ model.scrollOffset = 0 => After(model, "left").scrollOffset = 0
        /\ model.scrollOffset = numSplitLevels(model) - 1 =>
              After(model, "right").scrollOffset = model.scrollOffset

\* C22 (calculateVerticalScroll): with 0 <= cursor < len(rows) and
\* viewportHeight >= 1 the offset s returned satisfies
\* 0 <= s <= max(0, len(rows) - viewportHeight) and s <= cursor < s +
\* viewportHeight; when the cursor is at or below the stored offset +
\* viewportHeight, the cursor is the last visible row.
C22_CursorVisible ==
    calc.op = "calculateVerticalScroll" =>
        LET n              == calc.args[1]
            cursor         == calc.args[2]
            stored         == calc.args[3]
            viewportHeight == calc.args[4]
            s              == calc.out[1]
        IN  /\ s >= 0
            /\ s <= Max(0, n - viewportHeight)
            /\ s <= cursor
            /\ cursor < s + viewportHeight
            /\ cursor >= stored + viewportHeight => s + viewportHeight - 1 = cursor

\* 4 rows, viewport of 2, cursor on row 3 with a stored offset of 0: the
\* offset returned is 2
C22_Witness ==
    /\ calc.op = "calculateVerticalScroll"
    /\ calc.args = <<4, 3, 0, 2>>
    /\ calc.out = <<2>>

\* the page size of the key handlers and the viewport height of the render
viewportHeightOf(mdl) == Max(3, mdl.height - 10)

\* C23 (vertical scroll bounds): while the program runs, the stored
\* verticalScroll is within [0, max(0, len(rows) - viewportHeight)] with
\* viewportHeight = max(3, height - 10), also after a page-down followed by a
\* join or by a window resize.
C23_VerticalScrollInBounds ==
    Running =>
        /\ model.verticalScroll >= 0
        /\ model.verticalScroll
              <= Max(0, Len(model.rows) - viewportHeightOf(model))

\* C24 (paging): a page-down key press sets the cursor to
\* min(cursor + p, len(rows) - 1) and a page-up key press sets it to
\* max(cursor - p, 0), with p = max(3, H - 10) for the height H in the model;
\* neither wraps around.
C24_PageMoves ==
    Running =>
        LET p    == IF model.height - 10 > 3 THEN model.height - 10 ELSE 3
            last == Len(model.rows) - 1
            down == handleKeyPress(model, "pgdown")
            up   == handleKeyPress(model, "pgup")
        IN  /\ down.model.cursor
                  = (IF model.cursor + p < last THEN model.cursor + p ELSE last)
            /\ up.model.cursor
                  = (IF model.cursor - p > 0 THEN model.cursor - p ELSE 0)
            /\ down.model.cursor >= model.cursor
            /\ up.model.cursor <= model.cursor
            /\ down.cmd = CmdNil
            /\ up.cmd = CmdNil

\* on the table of 8 rows with a height of 14 (pages of 4 rows) a page-down
\* has taken the cursor from row 0 to row 4
C24_Witness ==
    /\ Running
    /\ Len(model.rows) = 8
    /\ model.height = 14
    /\ model.cursor = 4
    /\ model.verticalScroll = 4

\* C25 (NewModel): NewModel returns an error and the zero Model when the text
\* is unparsable, when targetBits > 0 and targetBits <= the prefix length, or
\* when targetBits > 30; otherwise it returns no error and a model whose rows
\* are the 2^(targetBits - prefix) leaves at /targetBits in address order (the
\* root alone when targetBits is 0), with cursor 0 and scrollOffset 0.
C25_NewModel ==
    calc.op = "NewModel" =>
        LET text       == calc.args[1]
            targetBits == calc.args[2]
            parsed     == ParsePrefix(text)
            mdl        == calc.out
            bits       == IF targetBits = 0 THEN parsed.bits ELSE targetBits
            fails      == \/ ~parsed.ok
                          \/ targetBits > 0 /\ targetBits <= parsed.bits
                          \/ targetBits > 30
        IN  /\ fails <=> calc.err # ErrNone
            /\ fails => mdl = ZeroModel
            /\ ~fails =>
                  /\ Len(mdl.rows) = Pow2(bits - parsed.bits)
                  /\ \A i \in 1..Len(mdl.rows) :
                        /\ ~mdl.root[mdl.rows[i]].IsSplit
                        /\ mdl.root[mdl.rows[i]].Network.CIDR.bits = bits
                  /\ \A i \in 1..(Len(mdl.rows) - 1) :
                        IsSucc(mdl.root[mdl.rows[i]].Network.BroadcastAddr,
                               mdl.root[mdl.rows[i + 1]].Network.CIDR.addr)
                  /\ mdl.rows = collectLeaves(mdl.root, Root)
                  /\ mdl.root[Root].Network.CIDR
                        = Prefix(Masked(Prefix(parsed.addr, parsed.bits)),
                                 parsed.bits)
                  /\ mdl.cursor = 0
                  /\ mdl.scrollOffset = 0

\* NewModel("192.168.1.0/24", 26) has returned a model of 4 rows
C25_Witness ==
    /\ calc.op = "NewModel"
    /\ calc.args[2] = 26
    /\ calc.err = ErrNone
    /\ Len(calc.out.rows) = 4
    /\ calc.out.root[calc.out.rows[4]].Network.CIDR
          = Prefix(<<192, 168, 1, 192>>, 26)


-----------------------------------------------------------------------------
(* The two JSON documents.  A marshalled object is the sequence of its     *)
(* members in the order of the struct's fields; a member is its key, the   *)
(* JSON type of its value and, for an array, the objects in it.  A field    *)
(* tagged omitempty has no member when its slice is empty.                  *)

Member(key, kind, items) == [key |-> key, kind |-> kind, items |-> items]

\* type ExportNode struct: the fields before Children
ExportNodeFields ==
    << Member("cidr", "string", <<>>),
       Member("firstIP", "string", <<>>),
       Member("lastIP", "string", <<>>),
       Member("broadcastAddr", "string", <<>>),
       Member("subnetMask", "string", <<>>),
       Member("hosts", "number", <<>>) >>

\* type jsonNetwork struct: the fields before Subnets
jsonNetworkFields ==
    << Member("cidr", "string", <<>>),
       Member("firstIP", "string", <<>>),
       Member("lastIP", "string", <<>>),
       Member("networkAddr", "string", <<>>),
       Member("broadcastAddr", "string", <<>>),
       Member("subnetMask", "string", <<>>),
       Member("maskBits", "number", <<>>),
       Member("maxHosts", "string", <<>>) >>

\* toExportNode without the loop over n.Children
toExportNodeFlat(h, n) == ExportNodeFields

\* (*SubnetNode).toExportNode, marshalled by ExportJSON
RECURSIVE toExportNode(_, _)
RECURSIVE exportChildren(_, _, _)
toExportNode(h, n) ==
    ExportNodeFields \o
        (IF Len(h[n].Children) > 0
         THEN <<Member("children", "array", exportChildren(h, n, 1))>>
         ELSE <<>>)

\* for _, child := range n.Children
exportChildren(h, n, i) ==
    IF i > Len(h[n].Children) THEN <<>>
    ELSE <<toExportNode(h, h[n].Children[i])>> \o exportChildren(h, n, i + 1)

\* toJSONNetwork, marshalled by JSONFormatter.FormatNetwork
RECURSIVE toJSONNetwork(_)
RECURSIVE jsonSubnets(_, _)
toJSONNetwork(n) ==
    jsonNetworkFields \o
        (IF Len(n.Subnets) > 0
         THEN <<Member("subnets", "array", jsonSubnets(n, 1))>>
         ELSE <<>>)

\* for i, s := range n.Subnets
jsonSubnets(n, i) ==
    IF i > Len(n.Subnets) THEN <<>>
    ELSE <<toJSONNetwork(n.Subnets[i])>> \o jsonSubnets(n, i + 1)

\* the Network of node n with the Networks of its children, and theirs, as
\* its Subnets: the value the one-shot path would format for the same tree
RECURSIVE NodeNetwork(_, _)
RECURSIVE ChildNetworks(_, _, _)
NodeNetwork(h, n) ==
    [h[n].Network EXCEPT !.Subnets = ChildNetworks(h, n, 1)]

ChildNetworks(h, n, i) ==
    IF i > Len(h[n].Children) THEN <<>>
    ELSE <<NodeNetwork(h, h[n].Children[i])>> \o ChildNetworks(h, n, i + 1)

MemberKeys(obj) == {obj[i].key : i \in DOMAIN obj}

MemberOf(obj, key) == CHOOSE m \in {obj[i] : i \in DOMAIN obj} : m.key = key

\* C26 as stated (JSON export schema): the document the TUI's export and
\* copy marshal for a tree is, key for key and level for level, the document
\* the one-shot --json path marshals for the same networks: cidr, firstIP,
\* lastIP, networkAddr, broadcastAddr, subnetMask, maskBits, maxHosts as a
\* string, and subnets when not empty.
C26_SameSchema ==
    Running =>
        toExportNode(model.root, Root) = toJSONNetwork(NodeNetwork(model.root, Root))

\* C26 (JSON export schema, amended): the object the TUI's export and copy
\* marshal for a node has the keys cidr, firstIP, lastIP, broadcastAddr,
\* subnetMask (strings) and hosts (a number), followed by children exactly
\* when the node is split, holding the objects of its two children in order;
\* of the one-shot object's keys it has cidr, firstIP, lastIP, broadcastAddr
\* and subnetMask and lacks networkAddr, maskBits, maxHosts and subnets.
C26_ExportSchema ==
    Running =>
        \A n \in DOMAIN model.root :
            LET h    == model.root
                obj  == toExportNode(h, n)
                json == toJSONNetwork(NodeNetwork(h, n))
            IN  /\ SubSeq(obj, 1, 6) = ExportNodeFields
                /\ MemberKeys(obj) \cap MemberKeys(json) =
                       {"cidr", "firstIP", "lastIP", "broadcastAddr", "subnetMask"}
                /\ MemberKeys(json) \ MemberKeys(obj) =
                       {"networkAddr", "maskBits", "maxHosts"}
                           \cup (IF h[n].IsSplit THEN {"subnets"} ELSE {})
                /\ IF h[n].IsSplit
                   THEN /\ Len(obj) = 7
                        /\ obj[7].key = "children"
                        /\ obj[7].kind = "array"
                        /\ obj[7].items = << toExportNode(h, h[n].Children[1]),
                                             toExportNode(h, h[n].Children[2]) >>
                        /\ Len(MemberOf(json, "subnets").items) = 2
                   ELSE Len(obj) = 6

\* the export key was pressed on a tree whose root and first child are split
C26_Witness ==
    /\ Running
    /\ model.statusMsg = StatusExport
    /\ model.root[Root].IsSplit
    /\ model.root[model.root[Root].Children[1]].IsSplit
    /\ Len(toExportNode(model.root, Root)[7].items[1]) = 7
    /\ Len(toExportNode(model.root, Root)[7].items[2]) = 6


\* C27 (tree shape): in every tree that Split, SplitToDepth and Join produce,
\* every node has no children or exactly two, is marked split exactly when
\* it has children, holds only nodes whose parent link points back to it and
\* whose prefix length is its own plus one, and every node but the root is
\* held by the node its parent link names; the root's parent link is nil.
C27_TreeShape ==
    /\ nodes[Root].Parent = Nil
    /\ \A n \in DOMAIN nodes :
          /\ Len(nodes[n].Children) \in {0, 2}
          /\ nodes[n].IsSplit <=> nodes[n].Children # <<>>
          /\ \A i \in 1..Len(nodes[n].Children) :
                LET c == nodes[n].Children[i]
                IN  /\ c \in DOMAIN nodes
                    /\ nodes[c].Parent = Ptr(n)
                    /\ nodes[c].Network.CIDR.bits = nodes[n].Network.CIDR.bits + 1
                    /\ nodes[c].Network.MaskBits = nodes[n].Network.MaskBits + 1
          /\ n # Root =>
                /\ nodes[n].Parent # Nil
                /\ nodes[n].Parent[1] \in DOMAIN nodes
                /\ \E i \in 1..Len(nodes[nodes[n].Parent[1]].Children) :
                      nodes[nodes[n].Parent[1]].Children[i] = n

\* a Join below the root has returned true in a tree that was two levels
\* deep and is still split at the root
C27_Witness ==
    /\ treeop.op = "Join"
    /\ treeop.ret
    /\ treeop.node # Root
    /\ nodes[Root].IsSplit
    /\ ~nodes[treeop.node].IsSplit
    /\ \E p \in DOMAIN treeop.before : p \notin DOMAIN nodes


\* C28 (Network.Split tiling): after a Network.Split(targetBits) that
\* returned no error, every subnet has maskBits = targetBits, the subnets are
\* in strictly ascending order of network address and do not overlap, each
\* starts right after its predecessor's broadcast address, the first starts
\* at the parent's network address and the last ends at the parent's
\* broadcast address.
C28_SplitTiles ==
    (netop.called /\ netop.err = ErrNone) =>
        LET subs == net.Subnets
            last == Len(subs)
        IN  /\ last >= 1
            /\ \A i \in 1..last :
                  /\ subs[i].MaskBits = netop.targetBits
                  /\ subs[i].CIDR.bits = netop.targetBits
                  /\ AddrLeq(subs[i].NetworkAddr, subs[i].BroadcastAddr)
            /\ \A i \in 1..(last - 1) :
                  /\ AddrLess(subs[i].NetworkAddr, subs[i + 1].NetworkAddr)
                  /\ AddrLess(subs[i].BroadcastAddr, subs[i + 1].NetworkAddr)
                  /\ IsSucc(subs[i].BroadcastAddr, subs[i + 1].NetworkAddr)
            /\ subs[1].NetworkAddr = net.NetworkAddr
            /\ subs[last].BroadcastAddr = net.BroadcastAddr

\* a network given with host bits set has been split into eight subnets
C28_Witness ==
    /\ netop.called
    /\ netop.err = ErrNone
    /\ net.CIDR = Prefix(<<10, 12, 32, 0>>, 19)
    /\ netop.targetBits = 22
    /\ Len(net.Subnets) = 8
    /\ net.Subnets[8].BroadcastAddr = <<10, 12, 63, 255>>


\* C29 (rows are the leaves): after NewModel and after every event the loop
\* handles (key press, window size, status clear), rows is collectLeaves(root)
\* in order: every row is a node of the current tree that is not split, and
\* no leaf is missing.
C29_RowsAreLeaves ==
    Running =>
        /\ model.rows = collectLeaves(model.root, Root)
        /\ \A i \in 1..Len(model.rows) :
              /\ model.rows[i] \in DOMAIN model.root
              /\ ~model.root[model.rows[i]].IsSplit
              /\ model.root[model.rows[i]].Children = <<>>
        /\ \A n \in DOMAIN model.root :
              ~model.root[n].IsSplit =>
                  \E i \in 1..Len(model.rows) : model.rows[i] = n

\* two joins have taken the table of four /30 down to the two /29, whose
\* children are gone from the tree, and a window size has been delivered
\* since the model was made
C29_Witness ==
    /\ Running
    /\ model.height = 12
    /\ mutations = 2
    /\ Len(model.rows) = 2
    /\ model.root[Root].IsSplit
    /\ \A i \in 1..2 : model.root[model.rows[i]].Network.CIDR.bits = 29
    /\ DOMAIN model.root = {Root, model.rows[1], model.rows[2]}


\* C30 (silent no-ops): the split key on a selected leaf of prefix length 30
\* or more, and the join key when the selected row is the unsplit root (it
\* has no parent), return the model as it was (tree, rows, cursor, undo and
\* redo stacks, status message and every other field) and no command.
C30_SilentNoOps ==
    Running =>
        LET node == model.root[model.rows[model.cursor + 1]]
        IN  /\ node.Network.CIDR.bits >= 30 =>
                  handleKeyPressHistory(model, "s") = Result(model, CmdNil)
            /\ node.Parent = Nil =>
                  /\ model.rows = <<Root>>
                  /\ handleKeyPressHistory(model, "x") = Result(model, CmdNil)

\* a /30 leaf is selected while both the undo and the redo stack hold a
\* tree, and the split key leaves the model as it is
C30_Witness ==
    /\ Running
    /\ model.undoStack # <<>>
    /\ model.redoStack # <<>>
    /\ model.root[model.rows[model.cursor + 1]].Network.CIDR.bits = 30
    /\ model.root[model.rows[model.cursor + 1]].Parent # Nil
    /\ After(model, "s") = model


\* the prefix lengths asked for: from one above the root's to one below the
\* deepest leaf's
AncestorDepths(h) ==
    (h[Root].Network.CIDR.bits - 1)..(h[Root].Network.CIDR.bits + MaxTreeDepth + 2)

\* the nodes on the parent chain from n up to the root, n included, taken
\* from the position of the nodes in the tree
ChainOf(h, n) == {p \in DOMAIN h : IsPrefix(p, n)}

\* the first and the last address of a network, each as its sequence of bytes
RangeOf(network) ==
    <<SubSeq(network.NetworkAddr, 1, Len(network.NetworkAddr)),
      SubSeq(network.BroadcastAddr, 1, Len(network.BroadcastAddr))>>

\* every node of a tree with the address range of its network
RangesOf(h) == {<<p, RangeOf(h[p].Network)>> : p \in DOMAIN h}

\* the range of node a contains the range of node b
RangeContains(ranges, a, b) ==
    \A outer \in {t \in ranges : t[1] = a} :
        \A inner \in {t \in ranges : t[1] = b} :
            /\ AddrLeq(outer[2][1], inner[2][1])
            /\ AddrLeq(inner[2][2], outer[2][2])

\* C31 (getAncestorAtDepth): for a node n and a prefix length d the call
\* returns the one node on the chain from n up to the root, n included,
\* whose prefix length is d, and nil when the chain has none (d above the
\* root's length, d below n's, or n nil); for a leaf and a d from the root's
\* to the leaf's prefix length the result is not nil and its address range
\* contains the leaf's.
C31_AncestorAtDepth ==
    \A ranges \in {RangesOf(nodes)} :
    \A d \in AncestorDepths(nodes) :
        /\ getAncestorAtDepth(nodes, Nil, d) = Nil
        /\ \A n \in DOMAIN nodes :
              \A r \in {getAncestorAtDepth(nodes, Ptr(n), d)} :
              \A matches \in {{p \in ChainOf(nodes, n) : nodes[p].Network.CIDR.bits = d}} :
              LET rootBits == nodes[Root].Network.CIDR.bits
                  bits    == nodes[n].Network.CIDR.bits
              IN  /\ matches = {} => r = Nil
                  /\ matches # {} => r # Nil /\ matches = {r[1]}
                  /\ (d < rootBits \/ d > bits) => r = Nil
                  /\ (~nodes[n].IsSplit /\ rootBits <= d /\ d <= bits) =>
                        /\ r # Nil
                        /\ RangeContains(ranges, r[1], n)

\* a leaf two levels below the root whose ancestor at the root's prefix
\* length is the root and whose ancestor one level down is its parent
C31_Witness ==
    \E n \in DOMAIN nodes :
        /\ Len(n) = 2
        /\ ~nodes[n].IsSplit
        /\ getAncestorAtDepth(nodes, Ptr(n), nodes[Root].Network.CIDR.bits) = Ptr(Root)
        /\ getAncestorAtDepth(nodes, Ptr(n), nodes[Root].Network.CIDR.bits + 1)
              = nodes[n].Parent
        /\ nodes[n].Parent # Ptr(Root)
        /\ getAncestorAtDepth(nodes, Ptr(n), nodes[Root].Network.CIDR.bits + 3) = Nil


-----------------------------------------------------------------------------
(* package tui, render_cells.go: the merged cells of the hierarchy columns. *)
(* Row indices count from 0 as in the program.  A *spanInfo is a sequence   *)
(* of no record (nil) or one.                                                *)

\* currentSpan.endRow = endRow; currentSpan.rowCount = ...; append(spans, it)
CloseSpan(spans, currentSpan, endRow) ==
    IF currentSpan = <<>> THEN spans
    ELSE Append(spans, [currentSpan[1] EXCEPT
                            !.endRow = endRow,
                            !.rowCount = endRow - currentSpan[1].startRow + 1])

\* calculateColumnSpans: the loop over m.rows for one column, and the lines
\* after it
RECURSIVE SpanLoopNoBreak(_, _, _, _, _)
RECURSIVE SpanLoop(_, _, _, _, _)
\* the loop with a bare continue at a row too shallow for the column
SpanLoopNoBreak(mdl, bits, rowIdx, spans, currentSpan) ==
    IF rowIdx >= Len(mdl.rows)
    THEN CloseSpan(spans, currentSpan, Len(mdl.rows) - 1)
    ELSE IF mdl.root[mdl.rows[rowIdx + 1]].Network.CIDR.bits < bits
    THEN SpanLoopNoBreak(mdl, bits, rowIdx + 1, spans, currentSpan)
    ELSE LET found    == getAncestorAtDepth(mdl.root, Ptr(mdl.rows[rowIdx + 1]), bits)
             ancestor == IF found = Nil THEN Ptr(Root) ELSE found
         IN  IF currentSpan = <<>> \/ currentSpan[1].node # ancestor
             THEN SpanLoopNoBreak(mdl, bits, rowIdx + 1,
                                  CloseSpan(spans, currentSpan, rowIdx - 1),
                                  <<spanInfo(ancestor, rowIdx)>>)
             ELSE SpanLoopNoBreak(mdl, bits, rowIdx + 1, spans, currentSpan)

SpanLoop(mdl, bits, rowIdx, spans, currentSpan) ==
    IF rowIdx >= Len(mdl.rows)
    THEN CloseSpan(spans, currentSpan, Len(mdl.rows) - 1)
    ELSE IF mdl.root[mdl.rows[rowIdx + 1]].Network.CIDR.bits < bits
    THEN SpanLoop(mdl, bits, rowIdx + 1,
                  CloseSpan(spans, currentSpan, rowIdx - 1), <<>>)
    ELSE LET found    == getAncestorAtDepth(mdl.root, Ptr(mdl.rows[rowIdx + 1]), bits)
             ancestor == IF found = Nil THEN Ptr(Root) ELSE found
         IN  IF currentSpan = <<>> \/ currentSpan[1].node # ancestor
             THEN SpanLoop(mdl, bits, rowIdx + 1,
                           CloseSpan(spans, currentSpan, rowIdx - 1),
                           <<spanInfo(ancestor, rowIdx)>>)
             ELSE SpanLoop(mdl, bits, rowIdx + 1, spans, currentSpan)

\* bits := maxBits - colIdx, not below m.initialPrefix
ColumnBits(mdl, maxBits, colIdx) == Max(maxBits - colIdx, mdl.initialPrefix)

\* calculateColumnSpans: the map from a column's bits to its spans
calculateColumnSpans(mdl, levels, maxBits, withSplits) ==
    IF ~withSplits THEN <<>>
    ELSE [bits \in {ColumnBits(mdl, maxBits, colIdx) : colIdx \in 0..(levels - 1)} |->
             SpanLoop(mdl, bits, 0, <<>>, <<>>)]

\* the call in render
renderColumnSpans(mdl) ==
    calculateColumnSpans(mdl,
                         IF hasSplits(mdl) THEN numSplitLevels(mdl) ELSE 0,
                         getMaxBits(mdl), hasSplits(mdl))

\* the spans of a column that hold row r
SpansOfRow(spans, r) ==
    {i \in 1..Len(spans) : spans[i].startRow <= r /\ r <= spans[i].endRow}

\* the node above row r (or that row's node) whose prefix length is d, by
\* its position in the tree
AncestorsOfRow(mdl, r, d) ==
    {p \in DOMAIN mdl.root :
        IsPrefix(p, mdl.rows[r + 1]) /\ mdl.root[p].Network.CIDR.bits = d}

\* C32 (column spans): when the tree is split, calculateColumnSpans has one
\* entry for each column depth d from the initial prefix length to the
\* deepest leaf's; its spans are disjoint and in ascending row order, each
\* with rowCount = endRow - startRow + 1 >= 1; a row whose leaf prefix is at
\* least d is in exactly one span and a row with a shorter prefix in none;
\* all rows of a span have the span's node as their ancestor at depth d, and
\* no two spans of a column have the same node.  Without splits the map is
\* empty.
C32_ColumnSpans ==
    Running =>
        LET cs   == renderColumnSpans(model)
            last == Len(model.rows) - 1
        IN  /\ ~hasSplits(model) => cs = <<>>
            /\ hasSplits(model) =>
                  /\ DOMAIN cs = model.initialPrefix..getMaxBits(model)
                  /\ \A d \in DOMAIN cs :
                        /\ \A i \in 1..Len(cs[d]) :
                              /\ cs[d][i].rowCount = cs[d][i].endRow - cs[d][i].startRow + 1
                              /\ cs[d][i].rowCount >= 1
                              /\ cs[d][i].startRow >= 0
                              /\ cs[d][i].endRow <= last
                              /\ \A r \in cs[d][i].startRow..cs[d][i].endRow :
                                    AncestorsOfRow(model, r, d) = {cs[d][i].node[1]}
                              /\ \A j \in 1..Len(cs[d]) :
                                    i # j => cs[d][i].node # cs[d][j].node
                        /\ \A i \in 1..(Len(cs[d]) - 1) :
                              cs[d][i].endRow < cs[d][i + 1].startRow
                        /\ \A r \in 0..last :
                              Cardinality(SpansOfRow(cs[d], r)) =
                                  IF model.root[model.rows[r + 1]].Network.CIDR.bits >= d
                                  THEN 1 ELSE 0

\* a table of three rows, a /25 beside two /26: the /26 column has a span
\* for each /26 row and leaves the /25 row out, the /25 column has a span of
\* two rows and a span of one, the /24 column one span of all three
C32_Witness ==
    /\ Running
    /\ Len(model.rows) = 3
    /\ model.initialPrefix = 24
    /\ getMaxBits(model) = 26
    /\ Len(renderColumnSpans(model)[26]) = 2
    /\ renderColumnSpans(model)[26][1].rowCount = 1
    /\ Len(renderColumnSpans(model)[25]) = 2
    /\ \E i \in 1..2 : renderColumnSpans(model)[25][i].rowCount = 2
    /\ Len(renderColumnSpans(model)[24]) = 1
    /\ renderColumnSpans(model)[24][1].rowCount = 3


\* what a cell shows
ShowsLabel(cell, bits) ==
    \E i \in 1..Len(cell) :
        /\ i + Len(SpanLabel(bits)) - 1 <= Len(cell)
        /\ SubSeq(cell, i, i + Len(SpanLabel(bits)) - 1) = SpanLabel(bits)

DrawsSides(cell) == cell[1] = BoxVertical /\ cell[Len(cell)] = BoxVertical

DrawsTop(cell) ==
    /\ cell[1] = BoxDownRight
    /\ cell[Len(cell)] = BoxDownLeft
    /\ \A i \in 2..(Len(cell) - 1) : cell[i] = BoxHorizontal

DrawsBottom(cell) ==
    /\ cell[1] = BoxUpRight
    /\ cell[Len(cell)] = BoxUpLeft
    /\ \A i \in 2..(Len(cell) - 1) : cell[i] = BoxHorizontal

HasHorizontalEdge(cell) ==
    \E i \in 1..Len(cell) :
        cell[i] \in {BoxHorizontal, BoxDownRight, BoxDownLeft, BoxUpRight, BoxUpLeft}

\* the label between the two vertical borders, and spaces
LabelRow(cell, bits) ==
    /\ DrawsSides(cell)
    /\ ShowsLabel(cell, bits)
    /\ ~HasHorizontalEdge(cell)
    /\ \A i \in 2..(Len(cell) - 1) : cell[i] \in {" ", "/"} \cup DigitChars

VerticalOnly(cell) ==
    /\ DrawsSides(cell)
    /\ \A i \in 2..(Len(cell) - 1) : cell[i] = " "

\* the rule for spans of two rows and more, common to the claim as stated
\* and as amended
SpanRule(rowCount, pos, cell, bits) ==
    /\ rowCount = 2 =>
          /\ pos = 0 => LabelRow(cell, bits)
          /\ pos = 1 => DrawsBottom(cell)
    /\ rowCount >= 3 =>
          /\ pos = 0 => DrawsTop(cell)
          /\ pos = rowCount - 1 => DrawsBottom(cell)
          /\ pos = (rowCount - 1) \div 2 => LabelRow(cell, bits)
          /\ pos \notin {0, rowCount - 1, (rowCount - 1) \div 2} => VerticalOnly(cell)
    /\ ShowsLabel(cell, bits) <=>
          pos = (IF rowCount <= 2 THEN 0 ELSE (rowCount - 1) \div 2)

\* C33 as stated (span borders): a span of one row draws all four sides
\* around its label; a span of two rows draws the label on the first row and
\* a closing edge on the second; a span of three or more draws an opening
\* edge on the first row, a closing edge on the last, the label on row
\* (rowCount-1)/2 and vertical borders only on every other row; the label is
\* shown on exactly one row of a span.
C33_FourSides ==
    calc.op = "buildSpanCell" =>
        LET rowCount == calc.args[1]
            pos      == calc.args[3] - calc.args[2]
            bits     == calc.args[4]
            cell     == calc.out[1]
        IN  /\ rowCount = 1 =>
                  /\ ShowsLabel(cell, bits)
                  /\ DrawsSides(cell)
                  /\ HasHorizontalEdge(cell)
            /\ SpanRule(rowCount, pos, cell, bits)

\* C33 (span borders, amended): a span of one row draws its label between
\* the left and the right border and no top or bottom edge; a span of two
\* rows draws the label on the first row and a closing edge on the second; a
\* span of three or more draws an opening edge on the first row, a closing
\* edge on the last, the label on row (rowCount-1)/2 and vertical borders
\* only on every other row; the label is shown on exactly one row of a span.
C33_SpanBorders ==
    calc.op = "buildSpanCell" =>
        LET rowCount == calc.args[1]
            pos      == calc.args[3] - calc.args[2]
            bits     == calc.args[4]
            cell     == calc.out[1]
        IN  /\ rowCount = 1 => LabelRow(cell, bits)
            /\ SpanRule(rowCount, pos, cell, bits)
            /\ Len(cell) = calc.args[5]

\* the third row of a span of four rows that starts at row 3, in the /24
\* column of width 5: neither edge nor label
C33_Witness ==
    /\ calc.op = "buildSpanCell"
    /\ calc.args = <<4, 3, 5, 24, 5>>
    /\ calc.out = << <<BoxVertical, " ", " ", " ", BoxVertical>> >>


\* the CIDRs of a list of networks, in order
CIDRsOf(networks) == [i \in 1..Len(networks) |-> networks[i].CIDR]

\* C34 (hierarchical and flat split agree): for an IPv4 network of prefix
\* length b and a target t with b < t <= 30 (and 2^(t-b) at most 1,000,000),
\* the CIDRs of collectLeaves after SplitToDepth(t) on a fresh root are, in
\* order, the CIDRs of Subnets after Network.Split(t) on the same network.
C34_FlatAgrees ==
    LET t  == treeop.targetBits
        b  == treeop.before[Root].Network.CIDR.bits
        n  == treeop.before[Root].Network
    IN  ( /\ treeop.op = "SplitToDepth"
          /\ treeop.node = Root
          /\ treeop.before = NewTree(n.CIDR)
          /\ BitLen(n.CIDR.addr) = 32
          /\ b < t
          /\ t <= 30
          /\ Pow2(t - b) <= MaxGeneratedSubnets ) =>
            /\ NetworkSplitErr(n, t) = ErrNone
            /\ CIDRsOf(LeafNets(nodes)) = CIDRsOf(NetworkSplit(n, t).Subnets)

\* SplitToDepth has taken the fresh root 192.168.1.0/24 to /26: four leaves,
\* the last 192.168.1.192/26, as the flat split gives them
C34_Witness ==
    /\ treeop.op = "SplitToDepth"
    /\ treeop.node = Root
    /\ treeop.targetBits = 26
    /\ treeop.before = NewTree(Prefix(<<192, 168, 1, 0>>, 24))
    /\ Len(LeafNets(nodes)) = 4
    /\ LeafNets(nodes)[4].CIDR = Prefix(<<192, 168, 1, 192>>, 26)
    /\ NetworkSplit(nodes[Root].Network, 26).Subnets[4].CIDR
          = Prefix(<<192, 168, 1, 192>>, 26)


\* the keys that are not split, join, undo or redo
FrameKeys == {"up", "down", "pgup", "pgdown", "left", "right", "?", "e", "c", "q"}

\* C35 (frame of the tree): a key press of up, down, page-up, page-down,
\* left, right, help, export, copy or quit, a window size and a status clear
\* leave the tree (every node with its children and its split flag) and the
\* rows as they were; only split, join, undo and redo change them.
C35_TreeFrame ==
    Running =>
        /\ \A key \in FrameKeys :
              /\ After(model, key).root = model.root
              /\ After(model, key).rows = model.rows
        /\ \A size \in WindowSizes :
              /\ updateWindowSize(model, size[1], size[2]).model.root = model.root
              /\ updateWindowSize(model, size[1], size[2]).model.rows = model.rows
        /\ updateClearStatus(model).model.root = model.root
        /\ updateClearStatus(model).model.rows = model.rows
        /\ \A key \in Keys :
              (After(model, key).root # model.root \/ After(model, key).rows # model.rows)
                  => key \in {"s", "x", "u", "r"}

\* a split tree with a saved history: join and undo would change the tree,
\* while down moves the cursor and copy sets the status and both leave the
\* tree and the rows alone
C35_Witness ==
    /\ Running
    /\ model.root[Root].IsSplit
    /\ Len(model.rows) >= 3
    /\ model.undoStack # <<>>
    /\ After(model, "x").rows # model.rows
    /\ After(model, "u").root # model.root
    /\ After(model, "down").cursor = model.cursor + 1
    /\ After(model, "c").statusMsg = StatusCopied
    /\ After(model, "c").root = model.root


\* the index (from 0) of the first row that is under node p, or is p
FirstRowUnder(mdl, p) ==
    (CHOOSE i \in 1..Len(mdl.rows) :
        /\ IsPrefix(p, mdl.rows[i])
        /\ \A j \in 1..(i - 1) : ~IsPrefix(p, mdl.rows[j])) - 1

\* C36 as stated (cursor after join): after a join key press that collapses
\* the parent of the selected leaf, the cursor selects the row of that
\* parent.
C36_CursorOnParent ==
    (Running /\ model.root[model.rows[model.cursor + 1]].Parent # Nil) =>
        LET parent == model.root[model.rows[model.cursor + 1]].Parent[1]
            a      == After(model, "x")
        IN  a.rows[a.cursor + 1] = parent

\* C36 (cursor after join, amended): a join key press that collapses the
\* parent of the selected leaf leaves the cursor at its row index, clamped to
\* the last row; the parent's row takes the index of the first row that was
\* under it, so the cursor selects the parent exactly when the clamped index
\* is that one, and a later row otherwise.
C36_CursorKeepsIndex ==
    (Running /\ model.root[model.rows[model.cursor + 1]].Parent # Nil) =>
        LET parent == model.root[model.rows[model.cursor + 1]].Parent[1]
            first  == FirstRowUnder(model, parent)
            a      == After(model, "x")
        IN  /\ a.cursor = Min(model.cursor, Len(a.rows) - 1)
            /\ a.rows[first + 1] = parent
            /\ a.cursor >= first
            /\ (a.rows[a.cursor + 1] = parent) <=> (a.cursor = first)

\* the second of four /26 rows is selected: the join leaves the cursor on
\* row 1, which is then the third /26 and not the joined /25 on row 0
C36_Witness ==
    /\ Running
    /\ Len(model.rows) = 4
    /\ model.cursor = 1
    /\ model.root[model.rows[2]].Network.CIDR.bits = 26
    /\ After(model, "x").cursor = 1
    /\ Len(After(model, "x").rows) = 3
    /\ After(model, "x").root[After(model, "x").rows[1]].Network.CIDR.bits = 25
    /\ After(model, "x").root[After(model, "x").rows[2]].Network.CIDR.bits = 26


\* C37 (a status message and its own timer): a clearStatusMsg scheduled for
\* an earlier status message does not clear a later, different message: when
\* a key press puts up a different message while a tick for the message on
\* display is still pending, the delivery of that tick, the next to fire,
\* leaves the new message on display.
C37_OwnTimerOnly ==
    (Running /\ model.statusMsg # "" /\ timers >= 1) =>
        \A key \in StatusKeys :
            LET later == After(model, key)
            IN  later.statusMsg # model.statusMsg =>
                    updateClearStatus(later).model.statusMsg = later.statusMsg


\* an int of 8 bytes that is not negative, as an unsigned number of as many
\* bytes as the address has: its low bytes, or zeros before it
WidenTo(n, len) ==
    IF len <= Len(n) THEN SubSeq(n, Len(n) - len + 1, Len(n))
    ELSE [i \in 1..(len - Len(n)) |-> 0] \o n

\* (a + b) mod 2^width on two big-endian numbers of the same length: the
\* sum byte at position i is the two bytes plus the carry of the bytes after
RECURSIVE CarryInto(_, _, _)
CarryInto(a, b, i) ==
    IF i > Len(a) THEN 0
    ELSE (a[i] + b[i] + CarryInto(a, b, i + 1)) \div 256

SumMod(a, b) ==
    [i \in 1..Len(a) |-> (a[i] + b[i] + CarryInto(a, b, i + 1)) % 256]

\* C38 (AddToAddr): for n >= 0, AddToAddr(addr, n) is the address whose
\* big-endian value is (value(addr) + n) mod 2^width, width 32 or 128: the
\* carry goes through all bytes and a carry out of the first byte is
\* dropped.
C38_AddToAddr ==
    calc.op = "AddToAddr" =>
        LET addr == calc.args[1]
            n    == calc.args[2]
        IN  n[1] < 128 =>
                calc.out[1] = SumMod(addr, WidenTo(n, Len(addr)))

====
